---- MODULE Spec2Model ----
(***************************************************************************)
(* Verification model of the SGLoader-V2 acquisition core:                 *)
(*   - the content-addressed blob cache and its batched downloader         *)
(*     (src/src/install/acz_content.rs),                                   *)
(*   - engine build resolution (src/src/install/robust_builds.rs),         *)
(*   - the engine archive installer (src/src/install/client_install.rs),   *)
(*   - the content overlay coordinator                                     *)
(*     (src/src/install/content_install.rs).                               *)
(* Each subsystem has its own specification (SpecSync, SpecResolve,        *)
(* SpecInstall, SpecOverlay); a specification leaves the variables of the  *)
(* other subsystems at their initial value.                                *)
(***************************************************************************)
EXTENDS Integers, Sequences, FiniteSets, TLC

VARIABLES
    dir,    \* blob cache directory: path -> inode id (0: no such file)
    ino,    \* inode id -> file content (sequence of bytes)
    run,    \* per acquisition run: state of build_overlay_zip_from_manifest
    wk,     \* per download worker thread: state of the worker closure
    rs,     \* engine build resolver (resolve_engine_build)
    eng,    \* engine installer (ensure_client_installed)
    ov      \* content overlay coordinator (ensure_content_overlay_zip)

vars == <<dir, ino, run, wk, rs, eng, ov>>

Min(a, b) == IF a < b THEN a ELSE b
Max(a, b) == IF a > b THEN a ELSE b

\* str::to_ascii_lowercase
LowerStr(x) ==
    [i \in 1..Len(x) |-> CASE x[i] = "A" -> "a" [] x[i] = "B" -> "b" [] x[i] = "P" -> "p"
                            [] x[i] = "T" -> "t" [] x[i] = "R" -> "r" [] x[i] = "U" -> "u"
                            [] x[i] = "E" -> "e" [] OTHER -> x[i]]

\* str::trim: the string without its leading and trailing blanks.
Trim(x) ==
    LET solid == {i \in 1..Len(x) : x[i] # " "}
    IN IF solid = {} THEN <<>>
       ELSE SubSeq(x, CHOOSE i \in solid : \A j \in solid : i <= j,
                      CHOOSE i \in solid : \A j \in solid : i >= j)

(***************************************************************************)
(* Bytes and hashing.  A hash function is modelled as an injective code of *)
(* the byte sequence (collision resistance): base 3 with a leading 1.      *)
(***************************************************************************)
RECURSIVE Blake(_)
Blake(s) == IF s = <<>> THEN 1
            ELSE Blake(SubSeq(s, 1, Len(s) - 1)) * 3 + s[Len(s)]

ContentA == <<1, 2>>
ContentB == <<2>>
HashA == Blake(ContentA)
HashB == Blake(ContentB)
Hashes == {HashA, HashB}
ContentOf(h) == IF h = HashA THEN ContentA ELSE ContentB

\* A byte that differs from b (corruption in transit or at the server).
Flip(b) == IF b = 1 THEN 2 ELSE 1

(***************************************************************************)
(* Content manifests (ManifestEntry: path, hash) served to the two runs.   *)
(* Run r1 syncs a manifest in which two paths share a hash; run r2 is a    *)
(* concurrent run (another process on the same data directory) that needs  *)
(* one of the same blobs.                                                  *)
(***************************************************************************)
Runs == {"r1", "r2"}

ManifestOf(r) ==
    IF r = "r1"
    THEN << [path |-> "a.txt", hash |-> HashA],
            [path |-> "b.txt", hash |-> HashB],
            [path |-> "c.txt", hash |-> HashA] >>
    ELSE << [path |-> "a.txt", hash |-> HashA] >>

\* Worker thread slots of one run, and the values SystemTime::now() may return.
MaxSlots == 2
MaxStamp == 2
Slots == 1..MaxSlots
Stamps == 1..MaxStamp
Workers == Runs \X Slots

MANIFEST_DOWNLOAD_PROTOCOL_VERSION == 1
DEFAULT_ACZ_DOWNLOAD_CONCURRENCY == 8
BatchClampMin == 64
BatchClampMax == 4096

\* The scenarios explored.  batch: SGLOADER_ACZ_DOWNLOAD_BATCH_SIZE in the environment of
\* run r1 (0: unset, the computed size); second: whether run r2 exists.  Either r1 runs
\* alone with one batch per worker, or r1 (one worker, one batch) races with r2.
SyncConfigs == { [batch |-> 1, second |-> FALSE], [batch |-> 0, second |-> TRUE] }

(***************************************************************************)
(* The blob cache directory.                                               *)
(***************************************************************************)
blob_cache_path(h) == <<"blob", h>>
\* The final file name plus ".tmp.<nanoseconds of SystemTime::now()>".
temp_cache_path(h, now) == <<"blob.tmp", h, now>>
FinalPaths == {blob_cache_path(h) : h \in Hashes}
TempPaths == {temp_cache_path(h, t) : h \in Hashes, t \in Stamps}
\* out_zip, the archive every sync of one identity key assembles.
OutZip == <<"client.zip">>
Paths == FinalPaths \cup TempPaths \cup {OutZip}
NoPath == <<"none">>

InoIds == 1..(Cardinality(Hashes) + 2 * Cardinality(Workers) + 1)

Exists(p) == dir[p] # 0

InUse(i, d, w) ==
    \/ \E p \in Paths : d[p] = i
    \/ \E x \in Workers : w[x].fh = i \/ w[x].src = i

FreshIno(d, w) == CHOOSE i \in InoIds :
    /\ ~InUse(i, d, w)
    /\ \A j \in InoIds : j < i => InUse(j, d, w)

\* The content of an inode nobody links or holds open is gone.
Gc(c, d, w) == [i \in InoIds |-> IF InUse(i, d, w) THEN c[i] ELSE <<>>]

Commit(d, c, w) ==
    /\ dir' = d
    /\ wk' = w
    /\ ino' = Gc(c, d, w)

\* write(2) of one chunk at a file offset; a write past the end leaves a hole of zeros.
RECURSIVE Zeros(_)
Zeros(n) == IF n <= 0 THEN <<>> ELSE <<0>> \o Zeros(n - 1)

WriteAt(c, off, b) ==
    IF off < Len(c) THEN [c EXCEPT ![off + 1] = b]
    ELSE c \o Zeros(off - Len(c)) \o <<b>>

\* File::create: a new empty file, or the existing file truncated.
CreateIno(p, d, w) == IF d[p] # 0 THEN d[p] ELSE FreshIno(d, w)

(***************************************************************************)
(* Deduplication, probing and the sizing of the worker pool.               *)
(***************************************************************************)
\* First occurrence per hash, as <<0-based manifest index, hash>>.
RECURSIVE UniqueFrom(_, _, _)
UniqueFrom(entries, k, seen) ==
    IF k > Len(entries) THEN <<>>
    ELSE IF entries[k].hash \in seen THEN UniqueFrom(entries, k + 1, seen)
    ELSE <<(<<k - 1, entries[k].hash>>)>>
             \o UniqueFrom(entries, k + 1, seen \cup {entries[k].hash})

\* A faulty variant of Unique: every entry counts, shared hashes included.
UniqueNoDedupe(entries) == [k \in 1..Len(entries) |-> <<k - 1, entries[k].hash>>]

Unique(entries) == UniqueFrom(entries, 1, {})

\* Indices of the unique hashes whose blob is not at its final path.
RECURSIVE IndicesToDownload(_, _)
IndicesToDownload(unique, d) ==
    IF unique = <<>> THEN <<>>
    ELSE (IF d[blob_cache_path(unique[1][2])] = 0 THEN <<unique[1][1]>> ELSE <<>>)
             \o IndicesToDownload(Tail(unique), d)

\* A faulty variant of DivCeil: the quotient is rounded down.
DivFloor(a, b) == a \div b

DivCeil(a, b) == (a + b - 1) \div b
Clamp(x, lo, hi) == Max(lo, Min(x, hi))

RequestedConcurrency(envC, n) ==
    Max(Min(IF envC > 0 THEN envC ELSE DEFAULT_ACZ_DOWNLOAD_CONCURRENCY, Max(n, 1)), 1)

BatchSize(envB, requested, n) ==
    IF envB > 0 THEN envB
    ELSE Clamp(DivCeil(n, Max(requested * 4, 1)), BatchClampMin, BatchClampMax)

\* A faulty variant of Chunks: a last chunk shorter than k is dropped.
ChunksExact(s, k) ==
    [j \in 1..(Len(s) \div k) |-> SubSeq(s, (j - 1) * k + 1, j * k)]

\* slice::chunks(k): consecutive slices of k elements, the last one possibly shorter.
Chunks(s, k) ==
    [j \in 1..((Len(s) + k - 1) \div k) |-> SubSeq(s, (j - 1) * k + 1, Min(j * k, Len(s)))]

Concurrency(requested, batches) == Min(requested, Max(Len(batches), 1))

\* Paths of the manifest that share a hash, in manifest order.
PathsOf(entries, h) ==
    LET idx == {k \in 1..Len(entries) : entries[k].hash = h}
        RECURSIVE Collect(_)
        Collect(k) == IF k > Len(entries) THEN <<>>
                      ELSE (IF k \in idx THEN <<entries[k].path>> ELSE <<>>) \o Collect(k + 1)
    IN Collect(1)

(***************************************************************************)
(* Initial state of the blob cache subsystem.                              *)
(***************************************************************************)
IdleWorker == [pc |-> "idle", batch |-> <<>>, pos |-> 0, len |-> 0, temp |-> NoPath,
               fh |-> 0, src |-> 0, done |-> 0, hashed |-> <<>>, res |-> "none",
               wrote |-> {}]

InitRun(r, ec, eb) ==
    [pc |-> "fetch", cancel |-> FALSE, entries |-> <<>>, unique |-> <<>>,
     missing |-> <<>>, queue |-> <<>>, abort |-> FALSE, nworkers |-> 0,
     joined |-> 0, res |-> "none", zip |-> <<>>, envConc |-> ec, envBatch |-> eb,
     text |-> <<>>, expected |-> <<>>, reporter |-> FALSE, reporter_stop |-> FALSE,
     during |-> FALSE, options |-> 0, range |-> "none", absent |-> {},
     posted |-> [i \in 0..(Len(ManifestOf(r)) - 1) |-> 0]]

\* The cache directory holds complete blobs of some of the hashes (earlier runs).
InitCache(present) ==
    /\ dir = [p \in Paths |->
                IF p = blob_cache_path(HashA) /\ HashA \in present THEN 1
                ELSE IF p = blob_cache_path(HashB) /\ HashB \in present THEN 2
                ELSE 0]
    /\ ino = [i \in InoIds |->
                IF i = 1 /\ HashA \in present THEN ContentA
                ELSE IF i = 2 /\ HashB \in present THEN ContentB
                ELSE <<>>]

IdleWorkers == [w \in Workers |-> IdleWorker]

\* State of the subsystems while they are not running.
SyncIdle ==
    /\ InitCache({})
    /\ run = [r \in Runs |-> [InitRun(r, 0, 0) EXCEPT !.pc = "absent"]]
    /\ wk = IdleWorkers

None == "none"
NoEntry == [present |-> FALSE, id |-> None, insecure |-> FALSE, redirect |-> None,
            platforms |-> {}]
IdleResolve == [pc |-> "idle", manifest |-> <<>>, requested |-> None, mirror |-> 1,
                last_err |-> None, version |-> None, info |-> NoEntry, hops |-> 0,
                host |-> <<>>,
                res |-> None, resolved_version |-> None, build |-> <<>>]

NoFile == [exists |-> FALSE, content |-> <<>>]
IdleEngine == [pc |-> "idle", file |-> NoFile, existed |-> FALSE, expected |-> <<>>,
               cancel |-> FALSE, downloads |-> 0, mismatches |-> 0, actual |-> <<>>,
               hashedAt |-> 0, res |-> None, fetches |-> 0, round |-> 1,
               launch |-> [pc |-> "idle", debug_assertions |-> FALSE, env |-> None,
                           signature_hex |-> <<>>, key |-> FALSE, verified |-> None,
                           res |-> None]]

IdleCall == [pc |-> "idle", cancel |-> FALSE, perr |-> <<>>, err |-> <<>>, res |-> <<>>,
             ret |-> <<>>, statuses |-> {}, syncCalls |-> 0, syncOk |-> FALSE,
             fresh |-> FALSE, requests |-> 0]
IdleOverlay == [d |-> <<>>, zip |-> NoFile, marker |-> FALSE, ozip |-> NoFile,
                omarker |-> FALSE, torn |-> FALSE, call |-> IdleCall, prev |-> <<>>]

\* A faulty variant of needs_download: the archive is always taken as missing.
needs_download_always(f) == TRUE

\* A faulty variant of needs_download: the archive is always taken as present.
needs_download_never(f) == FALSE

\* needs_download = !zip_path.exists()
needs_download(f) == ~f.exists

(***************************************************************************)
(* build_overlay_zip_from_manifest: the caller's thread of one run.        *)
(***************************************************************************)

Return(r, e) == run' = [run EXCEPT ![r].pc = "returned", ![r].res = e]

\* The manifest bodies a server may send to run r, as lines of items: the 64 hex
\* digits of a known hash ("HA", "HB"), a hex string that is not 32 bytes ("HS"), a
\* string that is not hex ("ZZ"), a blank, a path.  The first is the manifest proper.
ManifestTexts(r) ==
    LET head == <<"Robust Content Manifest 1">>
        line(e) == <<IF e.hash = HashA THEN "HA" ELSE "HB", " ", e.path>>
        body == [k \in 1..Len(ManifestOf(r)) |-> line(ManifestOf(r)[k])]
    IN IF r # "r1" THEN << <<head>> \o body >>
       ELSE << <<head>> \o body,
               << <<" ">> \o head \o <<" ">>, <<>>, body[1], <<" ", " ">>, body[2] \o <<" ">>,
                  body[3], <<>> >>,
               << <<"Robust Content Manifest 2">> >> \o body,
               <<>>,
               <<head, body[1], <<"HA">>, body[3]>>,
               <<head, body[1], <<"ZZ", " ", "b.txt">>, body[3]>>,
               <<head, body[1], body[2], <<"HS", " ", "c.txt">> >>,
               <<head, <<" ", "HA", " ", "a.txt">>, body[2], body[3]>> >>

\* hex::encode_upper of the BLAKE2b-256 of a manifest body: injective over the bodies.
ManifestDigest(text) ==
    LET all == ManifestTexts("r1") \o ManifestTexts("r2")
        k == CHOOSE k \in 1..Len(all) : all[k] = text
    IN [i \in 1..4 |-> IF (k \div (2 ^ (4 - i))) % 2 = 1 THEN "B" ELSE "A"]

\* A faulty variant of ParseLine: the length of the decoded hash is not checked.
ParseLineAnyLength(line) ==
    LET solid == {i \in 1..Len(line) : line[i] # " "}
        t == IF solid = {} THEN <<>>
             ELSE SubSeq(line, 1, CHOOSE i \in solid : \A j \in solid : i >= j)
        seps == {i \in 1..Len(t) : t[i] = " "}
        sep == CHOOSE i \in seps : \A j \in seps : i <= j
    IN IF t = <<>> THEN [kind |-> "blank", path |-> <<>>, hash |-> 0]
       ELSE IF seps = {} THEN [kind |-> "broken line", path |-> <<>>, hash |-> 0]
       ELSE IF \E i \in 1..(sep - 1) : t[i] \notin {"HA", "HB", "HS"}
       THEN [kind |-> "broken hash", path |-> <<>>, hash |-> 0]
       ELSE [kind |-> "entry",
             path |-> IF sep + 1 = Len(t) THEN t[Len(t)] ELSE SubSeq(t, sep + 1, Len(t)),
             hash |-> IF sep > 1 /\ t[1] = "HA" THEN HashA ELSE HashB]

\* One line after the header: trim_end, skip if empty, split at the first blank,
\* hex::decode, the 32 byte test.
ParseLine(line) ==
    LET solid == {i \in 1..Len(line) : line[i] # " "}
        t == IF solid = {} THEN <<>>
             ELSE SubSeq(line, 1, CHOOSE i \in solid : \A j \in solid : i >= j)
        seps == {i \in 1..Len(t) : t[i] = " "}
        sep == CHOOSE i \in seps : \A j \in seps : i <= j
    IN IF t = <<>> THEN [kind |-> "blank", path |-> <<>>, hash |-> 0]
       ELSE IF seps = {} THEN [kind |-> "broken line", path |-> <<>>, hash |-> 0]
       ELSE IF \E i \in 1..(sep - 1) : t[i] \notin {"HA", "HB", "HS"}
       THEN [kind |-> "broken hash", path |-> <<>>, hash |-> 0]
       ELSE IF SubSeq(t, 1, sep - 1) \notin {<<"HA">>, <<"HB">>}
       THEN [kind |-> "hash length", path |-> <<>>, hash |-> 0]
       ELSE [kind |-> "entry",
             path |-> IF sep + 1 = Len(t) THEN t[Len(t)] ELSE SubSeq(t, sep + 1, Len(t)),
             hash |-> IF t[1] = "HA" THEN HashA ELSE HashB]

\* parse_manifest_and_hash: the digest of the body, the header line, the entries.
parse_manifest_and_hash(text) ==
    LET parsed == [i \in 1..(Len(text) - 1) |-> ParseLine(text[i + 1])]
        good == SelectSeq(parsed, LAMBDA p : p.kind = "entry")
    IN IF text = <<>> \/ Trim(text[1]) # <<"Robust Content Manifest 1">>
       THEN [ok |-> FALSE, entries |-> <<>>, hash |-> <<>>]
       ELSE IF \E i \in 1..Len(parsed) : parsed[i].kind \notin {"blank", "entry"}
       THEN [ok |-> FALSE, entries |-> <<>>, hash |-> <<>>]
       ELSE [ok |-> TRUE,
             entries |-> [i \in 1..Len(good) |-> [path |-> good[i].path, hash |-> good[i].hash]],
             hash |-> ManifestDigest(text)]

\* cancel.check() and the GET of the manifest.  build.manifest_hash is absent, the
\* digest of the body in lower case, or the digest of another body; the bodies and
\* hashes other than the plain ones are explored for a run without a concurrent one.
SyncFetch(r) ==
    /\ run[r].pc = "fetch"
    /\ IF run[r].cancel THEN Return(r, "cancelled")
       ELSE \/ Return(r, "http")
            \/ \E k \in 1..Len(ManifestTexts(r)) : \E x \in {"none", "blank", "same", "other"} :
                 LET text == ManifestTexts(r)[k]
                     lower == [i \in 1..4 |-> IF ManifestDigest(text)[i] = "A" THEN "a" ELSE "b"]
                 IN /\ (k > 1 \/ x # "none") => run["r2"].pc = "absent"
                    /\ run' = [run EXCEPT ![r].pc = "parse", ![r].text = text,
                                          ![r].expected =
                                              CASE x = "none" -> <<>>
                                                [] x = "blank" -> <<" ">>
                                                [] x = "same" -> <<" ">> \o lower
                                                [] OTHER -> ManifestDigest(ManifestTexts("r2")[1])]
    /\ UNCHANGED <<dir, ino, wk>>
    /\ UNCHANGED <<rs, eng, ov>>

\* parse_manifest_and_hash(&manifest_bytes)? and the manifest_hash comparison.
SyncParse(r) ==
    /\ run[r].pc = "parse"
    /\ LET p == parse_manifest_and_hash(run[r].text)
           done == [run EXCEPT ![r].text = <<>>, ![r].expected = <<>>]
       IN run' = IF ~p.ok
                 THEN [done EXCEPT ![r].pc = "returned", ![r].res = "manifest"]
                 ELSE IF /\ Trim(run[r].expected) # <<>>
                         /\ LowerStr(p.hash) # LowerStr(Trim(run[r].expected))
                 THEN [done EXCEPT ![r].pc = "returned", ![r].res = "manifest_hash"]
                 ELSE [done EXCEPT ![r].pc = "probe", ![r].entries = p.entries]
    /\ UNCHANGED <<dir, ino, wk>>
    /\ UNCHANGED <<rs, eng, ov>>

\* cancel.check(), the dedupe maps, and the probe of the blob cache.
SyncProbe(r) ==
    /\ run[r].pc = "probe"
    /\ IF run[r].cancel THEN Return(r, "cancelled")
       ELSE LET u == Unique(run[r].entries)
                m == IndicesToDownload(u, dir)
            IN run' = [run EXCEPT ![r].unique = u, ![r].missing = m,
                                  ![r].absent = {h \in Hashes : ~Exists(blob_cache_path(h))},
                                  ![r].reporter_stop = m = <<>>,
                                  ![r].pc = IF m = <<>> THEN "assemble" ELSE "options"]
    /\ UNCHANGED <<dir, ino, wk>>
    /\ UNCHANGED <<rs, eng, ov>>

\* The protocol range of an OPTIONS response (-1: header absent or not a number).
ProtocolHeaderValues == {-1, 0, 1, 2}

\* A faulty variant of ProtocolSupported: the lower end of the range is ignored.
ProtocolSupportedMaxOnly(mn, mx) == ~(mx < MANIFEST_DOWNLOAD_PROTOCOL_VERSION)

ProtocolSupported(mn, mx) ==
    ~(mn > MANIFEST_DOWNLOAD_PROTOCOL_VERSION \/ mx < MANIFEST_DOWNLOAD_PROTOCOL_VERSION)

\* OPTIONS negotiation, then the spawn of the progress reporter (a progress channel
\* is present), the batches, the queue and the spawn of the workers.
SyncOptions(r) ==
    /\ run[r].pc = "options"
    /\ \/ /\ run' = [run EXCEPT ![r].pc = "returned", ![r].res = "http", ![r].options = @ + 1]
          /\ UNCHANGED wk
       \/ \E mn \in ProtocolHeaderValues, mx \in ProtocolHeaderValues :
            LET declared == IF mn \in {0, 1} /\ mx \in {1, 2} THEN "inside" ELSE "outside"
            IN
            IF mn = -1 \/ mx = -1 \/ ~ProtocolSupported(mn, mx)
            THEN /\ run' = [run EXCEPT ![r].pc = "returned", ![r].res = "protocol",
                                       ![r].options = @ + 1, ![r].range = declared]
                 /\ UNCHANGED wk
            ELSE LET n == Len(run[r].missing)
                     req == RequestedConcurrency(run[r].envConc, n)
                     bs == BatchSize(run[r].envBatch, req, n)
                     batches == Chunks(run[r].missing, bs)
                     c == Concurrency(req, batches)
                 IN /\ run' = [run EXCEPT ![r].pc = "join", ![r].queue = batches,
                                          ![r].reporter = TRUE,
                                          ![r].nworkers = c, ![r].options = @ + 1,
                                          ![r].range = declared]
                    /\ wk' = [w \in Workers |->
                                IF w[1] = r /\ w[2] <= c
                                THEN [wk[w] EXCEPT !.pc = "client"] ELSE wk[w]]
    /\ UNCHANGED <<dir, ino>>
    /\ UNCHANGED <<rs, eng, ov>>

\* A faulty variant of SyncJoin: a worker's error is taken as Ok(()).
SyncJoinIgnoringErrors(r) ==
    /\ run[r].pc = "join"
    /\ LET w == <<r, run[r].joined + 1>>
           last == run[r].joined + 1 = run[r].nworkers
       IN /\ wk[w].pc = "done"
          /\ run' = [run EXCEPT ![r].joined = @ + 1,
                                ![r].reporter_stop = last,
                                ![r].reporter = ~last,
                                ![r].pc = IF last THEN "assemble" ELSE "join"]
    /\ UNCHANGED <<dir, ino, wk>>
    /\ UNCHANGED <<rs, eng, ov>>

\* for h in handles { match h.join() ... }: the first Err returns at once.  After
\* the last handle: reporter_stop.store(true) and the join of the reporter.
SyncJoin(r) ==
    /\ run[r].pc = "join"
    /\ LET w == <<r, run[r].joined + 1>>
           last == run[r].joined + 1 = run[r].nworkers
       IN /\ wk[w].pc = "done"
          /\ IF wk[w].res = "ok"
             THEN run' = [run EXCEPT ![r].joined = @ + 1,
                                     ![r].reporter_stop = last,
                                     ![r].reporter = ~last,
                                     ![r].pc = IF last THEN "assemble" ELSE "join"]
             ELSE Return(r, wk[w].res)
    /\ UNCHANGED <<dir, ino, wk>>
    /\ UNCHANGED <<rs, eng, ov>>

\* The entries the assembly loop starts, as <<hash, path>>: the distinct hashes in
\* order of first occurrence, each with its paths in manifest order.
RECURSIVE ZipPlan(_, _)
ZipPlan(entries, unique) ==
    IF unique = <<>> THEN <<>>
    ELSE LET ps == PathsOf(entries, unique[1][2])
         IN [k \in 1..Len(ps) |-> <<unique[1][2], ps[k]>>] \o ZipPlan(entries, Tail(unique))

\* fs::File::create(out_zip): a new empty archive, or the existing one truncated.
SyncAssemble(r) ==
    /\ run[r].pc = "assemble"
    /\ LET f == CreateIno(OutZip, dir, wk)
       IN /\ dir' = [dir EXCEPT ![OutZip] = f]
          /\ ino' = [ino EXCEPT ![f] = <<>>]
    /\ run' = [run EXCEPT ![r].pc = "zip"]
    /\ UNCHANGED wk
    /\ UNCHANGED <<rs, eng, ov>>

\* One start_file and write of the loop; run[r].zip holds what this writer has
\* written, so its length is the writer's position.  At the first path of a hash:
\* cancel.check(), cache_path.exists(), the read of the blob; the other paths of the
\* hash get the bytes read then.
SyncEntry(r) ==
    /\ run[r].pc = "zip"
    /\ LET plan == ZipPlan(run[r].entries, run[r].unique)
           n == Len(run[r].zip)
           h == plan[n + 1][1]
           first == n = 0 \/ plan[n][1] # h
           e == <<plan[n + 1][2],
                  IF first THEN ino[dir[blob_cache_path(h)]] ELSE run[r].zip[n][2]>>
       IN /\ n < Len(plan)
          /\ IF first /\ run[r].cancel
             THEN Return(r, "cancelled") /\ UNCHANGED ino
             ELSE IF first /\ dir[blob_cache_path(h)] = 0
             THEN Return(r, "blob_missing") /\ UNCHANGED ino
             ELSE /\ run' = [run EXCEPT ![r].zip = Append(@, e)]
                  /\ ino' = [ino EXCEPT ![dir[OutZip]] = WriteAt(@, n, e)]
    /\ UNCHANGED <<dir, wk>>
    /\ UNCHANGED <<rs, eng, ov>>

\* zip.finish(): the central directory after the last entry, then Ok(()).
SyncFinish(r) ==
    /\ run[r].pc = "zip"
    /\ Len(run[r].zip) = Len(ZipPlan(run[r].entries, run[r].unique))
    /\ ino' = [ino EXCEPT ![dir[OutZip]] =
                    WriteAt(@, Len(run[r].zip), <<"central directory", Len(run[r].zip)>>)]
    /\ Return(r, "ok")
    /\ UNCHANGED <<dir, wk>>
    /\ UNCHANGED <<rs, eng, ov>>

\* CancelFlag::cancel, called by the user interface at any time.
Cancel(r) ==
    /\ run[r].pc # "absent"
    /\ ~run[r].cancel
    /\ run' = [run EXCEPT ![r].cancel = TRUE,
                          ![r].during = \E w \in Workers :
                              /\ run[r].pc = "join"
                              /\ w[1] = r /\ w[2] <= run[r].nworkers
                              /\ wk[w].pc \in {"post", "blob", "create", "copy"}]
    /\ UNCHANGED <<dir, ino, wk>>
    /\ UNCHANGED <<rs, eng, ov>>

(***************************************************************************)
(* The worker closure and download_blob_chunk_into_cache.                  *)
(***************************************************************************)
RunOf(w) == w[1]
EntryHash(w) == run[RunOf(w)].entries[wk[w].batch[wk[w].pos] + 1].hash
Closed(rec) == [rec EXCEPT !.fh = 0, !.src = 0]

\* The thread ends: return Ok(()) or return Err(e).
Finish(w, e, d, c) ==
    Commit(d, c, [wk EXCEPT ![w] = [IdleWorker EXCEPT !.pc = "done", !.res = e,
                                                      !.wrote = wk[w].wrote]])

\* download_blob_chunk_into_cache returned Err(e): abort.store(true); return Err(e).
BatchErr(w, e, d, c) ==
    /\ Finish(w, e, d, c)
    /\ run' = [run EXCEPT ![RunOf(w)].abort = TRUE]

\* The next index of the batch.
NextBlob(rec) ==
    IF rec.pos + 1 > Len(rec.batch)
    THEN [IdleWorker EXCEPT !.pc = "loop", !.wrote = rec.wrote]
    ELSE [IdleWorker EXCEPT !.pc = "blob", !.batch = rec.batch, !.pos = rec.pos + 1,
                            !.wrote = rec.wrote]

\* History: the blob of the current index went through the write path to its end.
Wrote(rec, h) == [rec EXCEPT !.wrote = @ \cup {h}]

\* blocking_http_client_download()? before the loop.
WorkerClient(w) ==
    /\ wk[w].pc = "client"
    /\ \/ Commit(dir, ino, [wk EXCEPT ![w].pc = "loop"])
       \/ Finish(w, "client_init", dir, ino)
    /\ UNCHANGED run
    /\ UNCHANGED <<rs, eng, ov>>

\* if abort.load() { return Ok(()) }
WorkerLoop(w) ==
    /\ wk[w].pc = "loop"
    /\ IF run[RunOf(w)].abort
       THEN Finish(w, "ok", dir, ino)
       ELSE Commit(dir, ino, [wk EXCEPT ![w].pc = "pop"])
    /\ UNCHANGED run
    /\ UNCHANGED <<rs, eng, ov>>

\* A faulty variant of WorkerPop: the batch is taken from the back of the queue.
WorkerPopBack(w) ==
    /\ wk[w].pc = "pop"
    /\ LET q == run[RunOf(w)].queue
       IN IF q = <<>>
          THEN Finish(w, "ok", dir, ino) /\ UNCHANGED run
          ELSE /\ Commit(dir, ino, [wk EXCEPT ![w].pc = "post", ![w].batch = q[Len(q)],
                                              ![w].pos = 0])
               /\ run' = [run EXCEPT ![RunOf(w)].queue = SubSeq(q, 1, Len(q) - 1)]
    /\ UNCHANGED <<rs, eng, ov>>

\* queue.lock().pop_front()
WorkerPop(w) ==
    /\ wk[w].pc = "pop"
    /\ LET q == run[RunOf(w)].queue
       IN IF q = <<>>
          THEN Finish(w, "ok", dir, ino) /\ UNCHANGED run
          ELSE /\ Commit(dir, ino, [wk EXCEPT ![w].pc = "post", ![w].batch = Head(q),
                                              ![w].pos = 0])
               /\ run' = [run EXCEPT ![RunOf(w)].queue = Tail(q)]
    /\ UNCHANGED <<rs, eng, ov>>

\* POST of the batch's indices by one req.send(), the status check and the flags
\* word.  "http_transient": a connect or timeout error, or status 5xx, 429, 408;
\* "http": any other error or status.
WorkerPost(w) ==
    /\ wk[w].pc = "post"
    /\ LET sent == [run EXCEPT ![RunOf(w)].posted =
                       [i \in DOMAIN @ |->
                          @[i] + Cardinality({k \in 1..Len(wk[w].batch) : wk[w].batch[k] = i})]]
       IN \/ /\ Commit(dir, ino, [wk EXCEPT ![w].pc = "blob", ![w].pos = 1])
             /\ run' = sent
          \/ \E e \in {"http", "http_transient", "short"} :
               /\ Finish(w, e, dir, ino)
               /\ run' = [sent EXCEPT ![RunOf(w)].abort = TRUE]
    /\ UNCHANGED <<rs, eng, ov>>

\* Head of the per-index loop: cancel.check(), the length word, cache_path.exists().
WorkerBlob(w) ==
    /\ wk[w].pc = "blob"
    /\ IF run[RunOf(w)].cancel
       THEN BatchErr(w, "cancelled", dir, ino)
       ELSE \/ BatchErr(w, "short", dir, ino)
            \/ /\ UNCHANGED run
               /\ IF Exists(blob_cache_path(EntryHash(w)))
                  THEN \* the record is read and discarded
                       Commit(dir, ino, [wk EXCEPT ![w] = NextBlob(@)])
                  ELSE Commit(dir, ino, [wk EXCEPT ![w].pc = "create",
                                            ![w].len = Len(ContentOf(EntryHash(w)))])
    /\ UNCHANGED <<rs, eng, ov>>

\* temp_cache_path, create_dir_all, File::create(&temp_path).
WorkerCreate(w) ==
    /\ wk[w].pc = "create"
    /\ \E now \in Stamps :
         LET p == temp_cache_path(EntryHash(w), now)
             i == CreateIno(p, dir, wk)
         IN Commit([dir EXCEPT ![p] = i], [ino EXCEPT ![i] = <<>>],
                   [wk EXCEPT ![w].pc = "copy", ![w].temp = p, ![w].fh = i,
                              ![w].done = 0, ![w].hashed = <<>>])
    /\ UNCHANGED run
    /\ UNCHANGED <<rs, eng, ov>>

\* The bytes the response may carry at an offset of a blob: the right one or another.
StreamBytes(h, off) == {ContentOf(h)[off + 1], Flip(ContentOf(h)[off + 1])}

\* A faulty variant of HashMismatch: only the length of the payload is compared.
HashMismatchLengthOnly(hashed, h) == Len(hashed) # Len(ContentOf(h))

\* out != entry.hash
HashMismatch(hashed, h) == Blake(hashed) # h

\* After a chunk: the loop goes on, or (written == uncompressed_len) the hash is compared.
AfterChunk(done, len, hashed, h) ==
    IF done < len THEN "copy"
    ELSE IF HashMismatch(hashed, h) THEN "mismatch" ELSE "rename"

\* One iteration of copy_read_exact_len_with_hash: cancel check, read, hash, write.
WorkerCopy(w) ==
    /\ wk[w].pc = "copy"
    /\ IF run[RunOf(w)].cancel
       THEN BatchErr(w, "cancelled", dir, ino)
       ELSE \/ BatchErr(w, "short", dir, ino)
            \/ \E b \in StreamBytes(EntryHash(w), wk[w].done) :
                 /\ Commit(dir, [ino EXCEPT ![wk[w].fh] = WriteAt(@, wk[w].done, b)],
                           [wk EXCEPT ![w].done = @ + 1,
                                      ![w].hashed = Append(@, b),
                                      ![w].pc = AfterChunk(wk[w].done + 1, wk[w].len,
                                                           Append(wk[w].hashed, b),
                                                           EntryHash(w))])
                 /\ UNCHANGED run
    /\ UNCHANGED <<rs, eng, ov>>

\* The hash differs: remove_file(&temp_path) and Err("hash mismatch ...").
WorkerMismatch(w) ==
    /\ wk[w].pc = "mismatch"
    /\ BatchErr(w, "hash_mismatch", [dir EXCEPT ![wk[w].temp] = 0], ino)
    /\ UNCHANGED <<rs, eng, ov>>

\* The directory after a successful rename(from, to).
Renamed(d, from, to) == [d EXCEPT ![to] = d[from], ![from] = 0]

\* file.flush(); drop(file); fs::rename(&temp_path, &cache_path).
WorkerRename(w) ==
    /\ wk[w].pc = "rename"
    /\ \/ /\ dir[wk[w].temp] # 0
          /\ Commit(Renamed(dir, wk[w].temp, blob_cache_path(EntryHash(w))), ino,
                    [wk EXCEPT ![w] = NextBlob(Wrote(@, EntryHash(w)))])
       \/ \* rename fails: the source is gone, or the file system refuses
          Commit(dir, ino, [wk EXCEPT ![w] = [Closed(@) EXCEPT !.pc = "renerr"]])
    /\ UNCHANGED run
    /\ UNCHANGED <<rs, eng, ov>>

\* Err(_) of the rename: cache_path.exists() decides between discard and copy.
WorkerRenameErr(w) ==
    /\ wk[w].pc = "renerr"
    /\ IF Exists(blob_cache_path(EntryHash(w)))
       THEN Commit([dir EXCEPT ![wk[w].temp] = 0], ino,
                   [wk EXCEPT ![w] = NextBlob(Wrote(@, EntryHash(w)))])
       ELSE Commit(dir, ino, [wk EXCEPT ![w].pc = "fscopy"])
    /\ UNCHANGED run
    /\ UNCHANGED <<rs, eng, ov>>

\* fs::copy(&temp_path, &cache_path): open the source, create the destination.
WorkerFsCopy(w) ==
    /\ wk[w].pc = "fscopy"
    /\ IF dir[wk[w].temp] = 0
       THEN BatchErr(w, "cache_copy", dir, ino)
       ELSE LET f == blob_cache_path(EntryHash(w))
                i == CreateIno(f, dir, wk)
            IN /\ Commit([dir EXCEPT ![f] = i], [ino EXCEPT ![i] = <<>>],
                         [wk EXCEPT ![w].pc = "fscopy2", ![w].src = dir[wk[w].temp],
                                    ![w].fh = i])
               /\ UNCHANGED run
    /\ UNCHANGED <<rs, eng, ov>>

\* fs::copy: the bytes of the source reach the destination; remove_file(&temp_path).
WorkerFsCopy2(w) ==
    /\ wk[w].pc = "fscopy2"
    /\ Commit([dir EXCEPT ![wk[w].temp] = 0],
              [ino EXCEPT ![wk[w].fh] = ino[wk[w].src]],
              [wk EXCEPT ![w] = NextBlob(Wrote(@, EntryHash(w)))])
    /\ UNCHANGED run
    /\ UNCHANGED <<rs, eng, ov>>

(***************************************************************************)
(* Specification of the blob cache subsystem: two concurrent runs.         *)
(***************************************************************************)
InitSync ==
    /\ \E present \in SUBSET Hashes : InitCache(present)
    /\ \E cf \in SyncConfigs :
         run = [r \in Runs |->
                  IF r = "r1" THEN InitRun(r, 0, cf.batch)
                  ELSE [InitRun(r, 0, 0) EXCEPT !.pc = IF cf.second THEN "fetch" ELSE "absent"]]
    /\ wk = IdleWorkers
    /\ rs = IdleResolve
    /\ eng = IdleEngine
    /\ ov = IdleOverlay

NextSync ==
    \/ \E r \in Runs : SyncFetch(r)
    \/ \E r \in Runs : SyncParse(r)
    \/ \E r \in Runs : SyncProbe(r)
    \/ \E r \in Runs : SyncOptions(r)
    \/ \E r \in Runs : SyncJoin(r)
    \/ \E r \in Runs : SyncAssemble(r)
    \/ \E r \in Runs : SyncEntry(r)
    \/ \E r \in Runs : SyncFinish(r)
    \/ \E r \in Runs : Cancel(r)
    \/ \E w \in Workers : WorkerClient(w)
    \/ \E w \in Workers : WorkerLoop(w)
    \/ \E w \in Workers : WorkerPop(w)
    \/ \E w \in Workers : WorkerPost(w)
    \/ \E w \in Workers : WorkerBlob(w)
    \/ \E w \in Workers : WorkerCreate(w)
    \/ \E w \in Workers : WorkerCopy(w)
    \/ \E w \in Workers : WorkerMismatch(w)
    \/ \E w \in Workers : WorkerRename(w)
    \/ \E w \in Workers : WorkerRenameErr(w)
    \/ \E w \in Workers : WorkerFsCopy(w)
    \/ \E w \in Workers : WorkerFsCopy2(w)

SpecSync == InitSync /\ [][NextSync]_vars

(***************************************************************************)
(* The sizing of batches and worker pool on its own: the block after the   *)
(* probe applied to a list of n missing indices under the two environment  *)
(* variables (0: unset).  Only the fields that block reads are filled.     *)
(***************************************************************************)
MaxSmallCount == 12
LargeCounts == {63, 64, 65, 255, 256, 257, 300, 2048, 2049, 16384, 16385, 16400}
SizingInputs ==
    {[n |-> n, conc |-> c, batch |-> b] :
        n \in 1..MaxSmallCount, c \in {0, 1, 3, 8, 20}, b \in {0, 1, 2, 5, 64}}
    \cup {[n |-> n, conc |-> c, batch |-> b] :
            n \in LargeCounts, c \in {0, 1, 3}, b \in {0, 100}}

InitSizing ==
    /\ InitCache({})
    /\ wk = IdleWorkers
    /\ \E x \in SizingInputs :
         run = [r \in Runs |->
                  IF r = "r1"
                  THEN [InitRun(r, x.conc, x.batch) EXCEPT
                           !.pc = "options", !.missing = [i \in 1..x.n |-> i - 1]]
                  ELSE [InitRun(r, 0, 0) EXCEPT !.pc = "absent"]]
    /\ rs = IdleResolve
    /\ eng = IdleEngine
    /\ ov = IdleOverlay

NextSizing == \E r \in Runs : SyncOptions(r)

SpecSizing == InitSizing /\ [][NextSizing]_vars

(***************************************************************************)
(* The decoding of one batch response on its own.  The body after the      *)
(* flags word is one record per requested index: the uncompressed length,  *)
(* in the pre-compressed layout the compressed length, then the payload.   *)
(* The worker that decodes keeps, in place of the file state: the layout,  *)
(* the records as <<uncompressed_len, compressed_len>>, the number of      *)
(* records begun, the reader's offset in bytes after the flags word, and   *)
(* the bytes of the current payload still to be read.                      *)
(***************************************************************************)
MaxRecords == 2
MaxPayload == 2
WordLen == 4
Decoder == <<"r1", 1>>

\* The responses a server may send: the layout flag and one record per index; the
\* plain layout has no compressed length (0 here).
BatchStreams ==
    LET recs(pre) == IF pre THEN (0..MaxPayload) \X (0..MaxPayload)
                     ELSE (0..MaxPayload) \X {0}
        bodies(pre) == UNION {[1..n -> recs(pre)] : n \in 1..MaxRecords}
    IN UNION {{[precompressed |-> pre, records |-> b] : b \in bodies(pre)} : pre \in BOOLEAN}

\* A faulty variant of SkipLen: the compressed length is not looked at.
SkipLenUncompressed(precompressed, uncompressed_len, compressed_len) == uncompressed_len

\* cache_path.exists(): the bytes handed to discard_exact_reader.
SkipLen(precompressed, uncompressed_len, compressed_len) ==
    IF precompressed
    THEN IF compressed_len > 0 THEN compressed_len ELSE uncompressed_len
    ELSE uncompressed_len

\* The write path: the bytes taken from the reader by (&mut reader).take(clen), the
\* decoder and the two drains, or by copy_read_exact_len_with_hash on the reader.
WriteLen(precompressed, uncompressed_len, compressed_len) ==
    IF precompressed
    THEN IF compressed_len > 0 THEN compressed_len ELSE uncompressed_len
    ELSE uncompressed_len

\* Head of the loop over the indices: read_i32_le_reader for the uncompressed
\* length, cache_path.exists(), in the pre-compressed layout read_i32_le_reader
\* for the compressed length.  A read may fail (short response).
DecodeHead ==
    /\ wk[Decoder].pc = "decode" /\ wk[Decoder].left = 0
    /\ wk[Decoder].begun < Len(wk[Decoder].records)
    /\ LET d == wk[Decoder]
           rec == d.records[d.begun + 1]
           words == IF d.precompressed THEN 2 ELSE 1
       IN \/ wk' = [wk EXCEPT ![Decoder].pc = "failed"]
          \/ \E exists \in BOOLEAN :
               wk' = [wk EXCEPT ![Decoder].begun = @ + 1,
                                ![Decoder].at = @ + words * WordLen,
                                ![Decoder].mode = IF exists THEN "skip" ELSE "write",
                                ![Decoder].left =
                                    IF exists THEN SkipLen(d.precompressed, rec[1], rec[2])
                                    ELSE WriteLen(d.precompressed, rec[1], rec[2])]
    /\ UNCHANGED <<dir, ino, run, rs, eng, ov>>

\* One reader.read of discard_exact_reader, of copy_read_exact_len_with_hash or of
\* the decoder and its drains: n bytes, at most what is left; n == 0 or a
\* cancellation is an error.
DecodeRead ==
    /\ wk[Decoder].pc = "decode" /\ wk[Decoder].left > 0
    /\ \/ wk' = [wk EXCEPT ![Decoder].pc = "failed"]
       \/ \E n \in 1..wk[Decoder].left :
            wk' = [wk EXCEPT ![Decoder].at = @ + n, ![Decoder].left = @ - n]
    /\ UNCHANGED <<dir, ino, run, rs, eng, ov>>

InitStream ==
    /\ InitCache({})
    /\ run = [r \in Runs |-> [InitRun(r, 0, 0) EXCEPT !.pc = "absent"]]
    /\ \E x \in BatchStreams :
           wk = [w \in Workers |->
                      IF w = Decoder
                      THEN [pc |-> "decode", precompressed |-> x.precompressed,
                            records |-> x.records, begun |-> 0, at |-> 0, left |-> 0,
                            mode |-> "none"]
                      ELSE IdleWorker]
    /\ rs = IdleResolve
    /\ eng = IdleEngine
    /\ ov = IdleOverlay

NextStream == DecodeHead \/ DecodeRead

SpecStream == InitStream /\ [][NextStream]_vars

(***************************************************************************)
(* Claims about the blob cache.                                            *)
(***************************************************************************)
ValidBlobAt(h) == Exists(blob_cache_path(h)) /\ Blake(ino[dir[blob_cache_path(h)]]) = h

\* C1: in every reachable state, a file visible at the final cache path of hash h is
\* complete and hashes to h (no reader can observe a half-written blob there).
C1_FinalBlobsComplete ==
    \A h \in Hashes : Exists(blob_cache_path(h)) => ValidBlobAt(h)

TmpRemains(h) == \E t \in Stamps : Exists(temp_cache_path(h, t))

BothWrote(h) ==
    /\ wk[<<"r1", 1>>].pc = "done" /\ wk[<<"r1", 1>>].res = "ok"
    /\ wk[<<"r2", 1>>].pc = "done" /\ wk[<<"r2", 1>>].res = "ok"
    /\ h \in wk[<<"r1", 1>>].wrote
    /\ h \in wk[<<"r2", 1>>].wrote

\* C3: when the workers of two runs raced to populate the cache slot of a hash and both
\* finished, one valid blob is at the final path and no temporary file of the slot remains.
C3_RaceLeavesOneValidBlob ==
    BothWrote(HashA) => (ValidBlobAt(HashA) /\ ~TmpRemains(HashA))

Publishing(w) == wk[w].pc \in {"rename", "renerr", "fscopy", "fscopy2"}
Downloaded(w) == wk[w].pc \in {"mismatch"} \cup {"rename", "renerr", "fscopy", "fscopy2"}

\* A returned sync reports success only if every worker it spawned returned Ok.
SyncOkMeansWorkersOk ==
    \A r \in Runs : (run[r].pc = "returned" /\ run[r].res = "ok") =>
        \A i \in 1..run[r].nworkers : wk[<<r, i>>].pc = "done" /\ wk[<<r, i>>].res = "ok"

\* A worker whose received bytes do not hash to the manifest hash is not on the
\* path that publishes the blob, and has not published it.
MismatchNeverPublishes ==
    \A w \in Workers : Downloaded(w) =>
        IF Blake(wk[w].hashed) # EntryHash(w)
        THEN wk[w].pc = "mismatch" /\ EntryHash(w) \notin wk[w].wrote
        ELSE Publishing(w)

\* The step of a worker that holds mismatching bytes: the batch fails with the
\* integrity error, the abort flag is set, and the final path is left as it was.
MismatchStep ==
    \A w \in Workers : (wk[w].pc = "mismatch" /\ wk'[w] # wk[w]) =>
        LET final == blob_cache_path(EntryHash(w))
            temp  == wk[w].temp
        IN  /\ wk'[w].pc = "done" /\ wk'[w].res = "hash_mismatch"
            /\ run'[RunOf(w)].abort
            /\ dir'[final] = dir[final]
            /\ dir'[temp] = 0

\* C2: if the bytes received for a requested blob do not hash to the manifest hash of
\* its index, the batch download fails with the integrity error, the sync does not
\* succeed, and that download never makes the blob visible at its final cache path.
C2_CorruptBlobFailsSync ==
    /\ [](SyncOkMeansWorkersOk /\ MismatchNeverPublishes)
    /\ [][MismatchStep]_vars

\* A sync that failed on a corrupted blob which is not in the cache.
C2_Witness ==
    \E r \in Runs : \E i \in Slots :
        /\ wk[<<r, i>>].pc = "done" /\ wk[<<r, i>>].res = "hash_mismatch"
        /\ run[r].pc = "returned" /\ run[r].res = "hash_mismatch"
        /\ \E h \in Hashes : ~Exists(blob_cache_path(h))

\* The indices a sync has to request: first occurrence of each hash that was
\* absent from the cache at the probe.
FirstAbsent(r) ==
    {k - 1 : k \in {k \in 1..Len(run[r].entries) :
                      /\ run[r].entries[k].hash \in run[r].absent
                      /\ \A j \in 1..(k - 1) : run[r].entries[j].hash # run[r].entries[k].hash}}

SyncOk(r) == run[r].pc = "returned" /\ run[r].res = "ok"

Spawned(r) == {w \in Workers : RunOf(w) = r /\ w[2] <= run[r].nworkers}

\* C13: a sync that returns a worker's error has seen every one of its worker
\* threads terminate first.
C13_ErrorOnlyAfterAllWorkersDone ==
    \A r \in Runs :
        (run[r].pc = "returned" /\ \E w \in Spawned(r) : wk[w].res = run[r].res)
            => \A w \in Spawned(r) : wk[w].pc = "done"

\* A sync that has returned after cancel was requested while its batches downloaded.
CancelledWhileDownloading(r) == run[r].during /\ run[r].pc = "returned"

\* C14: when cancel is requested while batches download, the sync returns the
\* cancelled error with every worker thread terminated, and no final blob path holds
\* a partially written file.
C14_CancelStopsWorkersCleanly ==
    \A r \in Runs :
        CancelledWhileDownloading(r) =>
            /\ run[r].res = "cancelled"
            /\ \A w \in Spawned(r) : wk[w].pc = "done"
            /\ \A h \in Hashes : Exists(blob_cache_path(h)) => ValidBlobAt(h)

\* C15: a blob download that stops in its copy loop, on cancel or on a short stream,
\* leaves with its temp file removed from the cache directory.
C15_InterruptedTempRemoved ==
    [][\A w \in Workers :
         LET t == wk[w].temp
         IN (wk[w].pc = "copy" /\ wk'[w].pc = "done" /\ wk'[w].res \in {"cancelled", "short"})
              => dir'[t] = 0]_vars

\* C18: a batch POST is sent only after an OPTIONS response declared a protocol
\* range containing version 1; a response whose range leaves it out, or lacks a
\* header, fails the sync with the protocol error and no POST; when no blob is missing
\* at the probe neither OPTIONS nor POST is sent.
C18_PostOnlyAfterNegotiation ==
    \A r \in Runs :
        LET sent == \E i \in DOMAIN run[r].posted : run[r].posted[i] > 0
        IN /\ sent => (run[r].options = 1 /\ run[r].range = "inside")
           /\ run[r].range = "outside"
                => (run[r].pc = "returned" /\ run[r].res = "protocol" /\ ~sent)
           /\ FirstAbsent(r) = {} => (run[r].options = 0 /\ ~sent)

\* A sync whose OPTIONS response declared a range with version 1 and that sent a POST.
C18_Witness ==
    /\ run["r1"].range = "inside"
    /\ run["r1"].posted[0] = 1

\* C24: a complete blob file at its final path, which no writer holds open, is never
\* replaced, rewritten or deleted by a later step: the path keeps naming the same
\* file with the same bytes.
C24_FinalBlobNeverReplaced ==
    [][\A h \in Hashes :
         LET f == blob_cache_path(h)
         IN (ValidBlobAt(h) /\ \A w \in Workers : wk[w].fh # dir[f])
              => (dir'[f] = dir[f] /\ ino'[dir[f]] = ino[dir[f]])]_vars

\* The non-blank lines after the header of a manifest body, and the body being one
\* the parser must reject: no proper header, or a non-blank line that is not a
\* 32 byte hex hash, a blank and a path.
NonBlankLines(text) == {i \in 2..Len(text) : \E k \in 1..Len(text[i]) : text[i][k] # " "}
Malformed(text) ==
    \/ text = <<>>
    \/ SelectSeq(text[1], LAMBDA c : c # " ") # <<"Robust Content Manifest 1">>
    \/ \E i \in NonBlankLines(text) :
         ~(/\ Len(text[i]) >= 3
           /\ text[i][1] \in {"HA", "HB"}
           /\ text[i][2] = " "
           /\ \E k \in 3..Len(text[i]) : text[i][k] # " ")
HashRejected(text, expected) ==
    /\ \E k \in 1..Len(expected) : expected[k] # " "
    /\ LowerStr(SelectSeq(expected, LAMBDA c : c # " ")) # LowerStr(ManifestDigest(text))

\* C25: a manifest that fails the expected hash comparison, has a wrong header, a
\* malformed non-blank line or a hash that is not 32 bytes makes sync fail before the
\* protocol is negotiated or a blob requested, with the blob cache and the output
\* archive untouched; a manifest that parses yields one entry per non-blank line
\* after the header.
C25_BadManifestFailsEarly ==
    [][\A r \in Runs :
         (run[r].pc = "parse" /\ run'[r].pc # "parse")
           => LET text == run[r].text
                  expected == run[r].expected
              IN IF Malformed(text) \/ HashRejected(text, expected)
                 THEN /\ run'[r].pc = "returned"
                      /\ run'[r].res \in {"manifest", "manifest_hash"}
                      /\ run'[r].options = 0 /\ run'[r].range = "none"
                      /\ \A i \in DOMAIN run'[r].posted : run'[r].posted[i] = 0
                      /\ run'[r].nworkers = 0 /\ run'[r].queue = <<>>
                      /\ run'[r].zip = <<>>
                      /\ dir' = dir /\ ino' = ino /\ wk' = wk
                 ELSE /\ run'[r].pc = "probe"
                      /\ Len(run'[r].entries) = Cardinality(NonBlankLines(text))
                      /\ run'[r].entries = ManifestOf(r)]_vars
C25_Witness ==
    /\ run["r1"].pc = "returned" /\ run["r1"].res = "manifest_hash"
    /\ run["r2"].pc = "absent"

\* The archive a sync has written once it is finished: its entries and the central
\* directory.
ArchiveOf(r) == run[r].zip \o << <<"central directory", Len(run[r].zip)>> >>

\* C26: when two syncs of one identity key assemble the same output path, a sync
\* that returns Ok leaves at that path the complete archive it wrote, one entry per
\* manifest path, and no other sync is writing that file at that moment.
C26_ReturnedArchiveComplete ==
    [][\A r \in Runs :
         (run[r].pc = "zip" /\ run'[r].pc = "returned" /\ run'[r].res = "ok")
           => /\ ino'[dir'[OutZip]] = ArchiveOf(r)
              /\ Len(run[r].zip) = Len(run[r].entries)
              /\ \A q \in Runs \ {r} : run'[q].pc # "zip"]_vars

\* C28: once a worker of a sync has failed, the abort flag is set and no worker
\* takes a batch from the queue any more.
C28_NoDequeueAfterFailure ==
    [][\A r \in Runs :
         (\E w \in Spawned(r) : wk[w].pc = "done" /\ wk[w].res # "ok")
           => run[r].abort /\ run'[r].queue = run[r].queue]_vars

\* C29: a sync that has started its progress reporter thread returns, on every
\* path, with the reporter's stop flag set and the reporter thread ended.
C29_ReporterStoppedOnReturn ==
    \A r \in Runs :
        (run[r].pc = "returned" /\ run[r].nworkers > 0)
            => run[r].reporter_stop /\ ~run[r].reporter

\* C30: ZIP assembly starts only after every worker of the sync has ended without
\* error with the queue empty, every missing index requested and every distinct
\* hash at its final path; the blob-not-found error of the assembly does not occur.
C30_AssemblyAfterAllBlobsCached ==
    \A r \in Runs :
        /\ (run[r].pc \in {"assemble", "zip"} \/ SyncOk(r))
             => /\ \A w \in Spawned(r) : wk[w].pc = "done" /\ wk[w].res = "ok"
                /\ run[r].queue = <<>>
                /\ ~run[r].abort
                /\ \A k \in 1..Len(run[r].missing) : run[r].posted[run[r].missing[k]] = 1
                /\ \A k \in 1..Len(run[r].unique) : Exists(blob_cache_path(run[r].unique[k][2]))
        /\ run[r].res # "blob_missing"
C30_Witness ==
    /\ run["r1"].pc = "zip" /\ run["r1"].nworkers = 2
    /\ Len(run["r1"].missing) = 2
    /\ wk[<<"r1", 1>>].wrote # {} /\ wk[<<"r1", 2>>].wrote # {}

\* C31: during ZIP assembly, once cancellation has been requested no further entry
\* is started in the archive, the remaining paths of the hash being written included.
C31_NoEntryAfterCancel ==
    [][\A r \in Runs : run[r].cancel => run'[r].zip = run[r].zip]_vars

\* C32: batches leave the queue from its front, in the order they were cut, each
\* to one worker; no index is requested twice, and when every worker has ended
\* without error every batch was requested.
C32_BatchesFifoOncePerWorker ==
    [][\A r \in Runs :
         /\ (run[r].pc = "join" /\ run'[r].queue # run[r].queue)
              => /\ run[r].queue # <<>>
                 /\ run'[r].queue = Tail(run[r].queue)
                 /\ \E w \in Spawned(r) :
                      /\ wk[w].pc = "pop" /\ wk'[w].pc = "post"
                      /\ wk'[w].batch = Head(run[r].queue)
                      /\ \A v \in Workers \ {w} : wk'[v] = wk[v]
         /\ \A i \in DOMAIN run'[r].posted : run'[r].posted[i] <= 1
         /\ \A v, w \in Spawned(r) :
              (v # w /\ wk'[v].batch # <<>>) => wk'[v].batch # wk'[w].batch
         /\ (/\ run[r].pc = "join" /\ run'[r].pc = "join"
             /\ \A w \in Spawned(r) : wk'[w].pc = "done" /\ wk'[w].res = "ok")
              => /\ run'[r].queue = <<>>
                 /\ \A k \in 1..Len(run'[r].missing) :
                      run'[r].posted[run'[r].missing[k]] = 1]_vars
C32_Witness ==
    /\ run["r1"].pc = "join" /\ run["r1"].queue = <<>>
    /\ Len(run["r1"].missing) = 2
    /\ wk[<<"r1", 1>>].batch = <<run["r1"].missing[2]>>
    /\ wk[<<"r1", 2>>].batch = <<run["r1"].missing[1]>>
    /\ wk[<<"r1", 1>>].pc = "blob" /\ wk[<<"r1", 2>>].pc = "blob"

\* The archive entries a manifest calls for: the entries ordered by the first
\* occurrence of their hash, then by their own place, each with its hash's bytes.
ExpectedZip(e) ==
    LET key(k) == CHOOSE j \in 1..k : e[j].hash = e[k].hash
                                      /\ \A i \in 1..(j - 1) : e[i].hash # e[k].hash
        before(j, k) == key(j) < key(k) \/ (key(j) = key(k) /\ j < k)
        at(n) == CHOOSE k \in 1..Len(e) : Cardinality({j \in 1..Len(e) : before(j, k)}) = n - 1
    IN [n \in 1..Len(e) |-> <<e[at(n)].path, ContentOf(e[at(n)].hash)>>]

\* C33: the entries of the archive a sync has assembled are a function of the
\* manifest alone: hashes in order of first occurrence, the paths of a hash in
\* manifest order, whatever the workers' interleaving and the initial cache.
C33_ZipDeterminedByManifest ==
    \A r \in Runs : SyncOk(r) => run[r].zip = ExpectedZip(ManifestOf(r))

\* C34: a request that meets a transient condition is sent again, up to three
\* sends, before its failure is returned; here for the POST of a batch.
C34_TransientFailureRetried ==
    [][\A w \in Workers :
         (wk[w].pc = "post" /\ wk'[w].pc = "done" /\ wk'[w].res = "http_transient")
           => \A k \in 1..Len(wk[w].batch) :
                run'[RunOf(w)].posted[wk[w].batch[k]] = run[RunOf(w)].posted[wk[w].batch[k]] + 3]_vars

\* C35: no two workers write to the same temporary path at the same time, and two
\* workers of one sync never write a temporary file of the same hash.
C35_TempPathsUnique ==
    \A v, w \in Workers :
        (v # w /\ wk[v].pc = "copy" /\ wk[w].pc = "copy")
            => /\ wk[v].temp # wk[w].temp
               /\ RunOf(v) = RunOf(w) => wk[v].temp[2] # wk[w].temp[2]

\* The batches of a queue laid end to end.
RECURSIVE Flatten(_)
Flatten(q) == IF q = <<>> THEN <<>> ELSE Head(q) \o Flatten(Tail(q))

\* C36: the batches cut for the workers partition the list of missing indices:
\* laid end to end they are that list, none is empty, and the list holds exactly
\* the first-occurrence indices of the hashes absent from the cache at the probe.
C36_BatchesPartitionMissing ==
    [][\A r \in Runs :
         (run[r].pc = "options" /\ run'[r].pc = "join")
           => LET q == run'[r].queue
                  m == run[r].missing
              IN /\ Flatten(q) = m
                 /\ \A b \in 1..Len(q) : q[b] # <<>>
                 /\ \A j, k \in 1..Len(m) : j < k => m[j] < m[k]
                 /\ {m[k] : k \in 1..Len(m)} = FirstAbsent(r)
                 /\ \A k \in 1..Len(m) :
                      run[r].entries[m[k] + 1].hash \in run[r].absent]_vars
C36_Witness ==
    /\ run["r1"].pc = "join" /\ Len(run["r1"].missing) = 2
    /\ Len(run["r1"].queue) = 2 /\ run["r2"].pc = "absent"
    /\ \A w \in Workers : wk[w].pc \in {"idle", "client"}

\* C37: a batch size that is not overridden is ceil(n / (4 * w)) clamped to
\* [64, 4096], n the number of missing indices and w the configured concurrency
\* (default 8) capped at n; the number of workers is the smaller of the configured
\* concurrency and the number of batches, at least 1 and at most that number.
C37_BatchSizeAndPool ==
    [][\A r \in Runs :
         (run[r].pc = "options" /\ run'[r].pc = "join")
           => LET n == Len(run[r].missing)
                  configured == IF run[r].envConc > 0 THEN run[r].envConc ELSE 8
                  w == IF configured < n THEN configured ELSE n
                  ceil == CHOOSE k \in 1..n : k * 4 * w >= n /\ (k - 1) * 4 * w < n
                  size == IF run[r].envBatch > 0 THEN run[r].envBatch
                          ELSE IF ceil < 64 THEN 64 ELSE IF ceil > 4096 THEN 4096 ELSE ceil
                  q == run'[r].queue
              IN /\ \A b \in 1..(Len(q) - 1) : Len(q[b]) = size
                 /\ Len(q[Len(q)]) \in 1..size
                 /\ run'[r].nworkers = IF configured < Len(q) THEN configured ELSE Len(q)
                 /\ run'[r].nworkers >= 1
                 /\ run'[r].nworkers <= Len(q)]_vars
C37_Witness ==
    /\ run["r1"].pc = "join" /\ run["r1"].envBatch = 0 /\ run["r1"].envConc = 1
    /\ Len(run["r1"].missing) = 257
    /\ Len(run["r1"].queue) = 4 /\ Len(run["r1"].queue[1]) = 65
    /\ run["r1"].nworkers = 1

\* The offset at which the record of the k-th requested index starts: the records
\* before it, each one or two length words and its payload, which in the
\* pre-compressed layout has the compressed length unless that is zero.
RECURSIVE RecordStart(_, _, _)
RecordStart(precompressed, records, k) ==
    IF k <= 1 THEN 0
    ELSE LET rec == records[k - 1]
             payload == IF precompressed /\ rec[2] # 0 THEN rec[2] ELSE rec[1]
         IN RecordStart(precompressed, records, k - 1)
              + (IF precompressed THEN 8 ELSE 4) + payload

\* C38: while a batch response is decoded, whenever the record of an index has
\* been handled, written or skipped, in either layout, the reader stands at the
\* start of the next index's record.
C38_ReaderAtNextRecord ==
    LET d == wk[Decoder]
    IN (d.pc = "decode" /\ d.left = 0)
         => d.at = RecordStart(d.precompressed, d.records, d.begun + 1)
C38_Witness ==
    LET d == wk[Decoder]
    IN /\ d.pc = "decode" /\ d.left = 0 /\ d.begun = 2 /\ d.mode = "skip"
       /\ d.precompressed /\ d.records[1] = <<2, 1>> /\ d.records[2] = <<1, 2>>
       /\ d.at = 19

(***************************************************************************)
(* Engine build resolution: resolve_engine_build.                          *)
(***************************************************************************)
Versions == {"1.0", "1.1", "1.2"}
Rids == {"linux-x64", "Linux-X64", "win-x64"}
PlatformSets == {{}, {"Linux-X64"}, {"linux-x64", "win-x64"}}
Hosts == {<<"linux", "x86_64">>, <<"windows", "x86_64">>, <<"freebsd", "x86_64">>}
ROBUST_BUILDS_MANIFEST_URLS == <<"primary", "fallback">>

\* HashMap<String, VersionInfo> as parsed from the manifest JSON.
Entries ==
    {e \in [present : {TRUE}, id : {None}, insecure : BOOLEAN,
            redirect : Versions \cup {None}, platforms : PlatformSets] :
        e.insecure => e.platforms = {"Linux-X64"}}
Manifests ==
    {[v \in Versions |-> IF m[v] = NoEntry THEN NoEntry ELSE [m[v] EXCEPT !.id = v]] :
        m \in [Versions -> Entries \cup {NoEntry}]}

\* str::eq_ignore_ascii_case on the platform keys.
LowerRid(x) == IF x = "Linux-X64" THEN "linux-x64" ELSE x
eq_ignore_ascii_case(a, b) == LowerRid(a) = LowerRid(b)

Candidates(host) ==
    CASE host = <<"windows", "x86_64">> -> <<"win-x64", "win-x86">>
      [] host = <<"linux", "x86_64">>   -> <<"linux-x64">>
      [] OTHER                          -> <<>>

\* The keys pick_best_rid may return: HashMap::keys() has no fixed order, so the
\* first matching key and the first available key are any of them.
pick_best_rid(host, available) ==
    LET cs == Candidates(host)
        hit(k) == {x \in available : eq_ignore_ascii_case(x, cs[k])}
        good == {k \in 1..Len(cs) : hit(k) # {}}
    IN IF good # {} THEN hit(CHOOSE k \in good : \A j \in good : k <= j)
       ELSE available

\* A faulty variant of Redirected: the redirect of an insecure entry is not followed.
RedirectedUnlessInsecure(info) == info.redirect # None /\ ~info.insecure

\* A faulty variant of Redirected: no redirect is followed.
RedirectedNever(info) == FALSE

\* while let Some(next) = info.redirect_version
Redirected(info) == info.redirect # None

ResolveErr(e) == rs' = [rs EXCEPT !.pc = "returned", !.res = e]

\* fetch_manifest: one mirror per step; the last error is kept.
ResolveFetch ==
    /\ rs.pc = "fetch"
    /\ \/ rs' = [rs EXCEPT !.pc = "lookup"]
       \/ \E e \in {"manifest_request", "manifest_status", "manifest_parse"} :
            IF rs.mirror = Len(ROBUST_BUILDS_MANIFEST_URLS)
            THEN ResolveErr(e)
            ELSE rs' = [rs EXCEPT !.mirror = @ + 1, !.last_err = e]
    /\ UNCHANGED <<dir, ino, run, wk, eng, ov>>

\* follow_redirects: lookup of the requested version.
ResolveLookup ==
    /\ rs.pc = "lookup"
    /\ IF rs.manifest[rs.requested].present
       THEN rs' = [rs EXCEPT !.pc = "follow", !.version = rs.requested,
                             !.info = rs.manifest[rs.requested]]
       ELSE ResolveErr("unknown_version")
    /\ UNCHANGED <<dir, ino, run, wk, eng, ov>>

\* Loop iterations are counted modulo HopWrap.
HopWrap == 2

\* follow_redirects: one iteration of the while loop.
ResolveHop ==
    /\ rs.pc = "follow"
    /\ Redirected(rs.info)
    /\ LET next == rs.info.redirect IN
         IF rs.manifest[next].present
         THEN rs' = [rs EXCEPT !.version = next, !.info = rs.manifest[next],
                               !.hops = (@ + 1) % HopWrap]
         ELSE ResolveErr("unknown_redirect")
    /\ UNCHANGED <<dir, ino, run, wk, eng, ov>>

\* resolve_engine_build after follow_redirects returned.
ResolveFinish ==
    /\ rs.pc = "follow"
    /\ ~Redirected(rs.info)
    /\ \E host \in Hosts :
         IF rs.info.insecure THEN ResolveErr("insecure")
         ELSE IF pick_best_rid(host, rs.info.platforms) = {} THEN ResolveErr("no_platform")
         ELSE \E rid \in pick_best_rid(host, rs.info.platforms) :
                rs' = [rs EXCEPT !.pc = "returned", !.res = "ok", !.host = host,
                                 !.resolved_version = rs.version,
                                 !.build = <<rs.info.id, rid>>]
    /\ UNCHANGED <<dir, ino, run, wk, eng, ov>>

InitResolve ==
    /\ SyncIdle
    /\ \E m \in Manifests : \E v \in Versions :
         rs = [IdleResolve EXCEPT !.pc = "fetch", !.manifest = m, !.requested = v]
    /\ eng = IdleEngine
    /\ ov = IdleOverlay

NextResolve == ResolveFetch \/ ResolveLookup \/ ResolveHop \/ ResolveFinish

SpecResolve == InitResolve /\ [][NextResolve]_vars

\* The loop and the calls after it run to completion once started.
SpecResolveFair == SpecResolve /\ WF_vars(NextResolve)

\* Where the redirect chain from v ends: at an entry without a redirect, at a
\* version the manifest lacks, or nowhere.
RECURSIVE ChainEnd(_, _, _)
ChainEnd(m, v, fuel) ==
    IF ~m[v].present THEN <<"missing", v>>
    ELSE IF m[v].redirect = None THEN <<"terminal", v>>
    ELSE IF fuel = 0 THEN <<"cycle", v>>
    ELSE ChainEnd(m, m[v].redirect, fuel - 1)

ChainOf(r) == ChainEnd(r.manifest, r.requested, Cardinality(Versions))

\* C4: whenever the redirects reachable from the requested version form a cycle,
\* resolve terminates with an error; it never follows redirects forever.
C4_CycleIsRejected ==
    (rs.pc = "follow" /\ ChainOf(rs)[1] = "cycle") ~> (rs.pc = "returned" /\ rs.res # "ok")

ManifestErrs == {"manifest_request", "manifest_status", "manifest_parse"}
Terminal(r) == ChainOf(r)[2]
\* resolve returned after it obtained a manifest whose chain from the requested
\* version is acyclic with every version present.
ResolvedOnChain ==
    rs.pc = "returned" /\ rs.res \notin ManifestErrs /\ ChainOf(rs)[1] = "terminal"
ReturnsTerminal ==
    /\ rs.res = "ok"
    /\ rs.resolved_version = Terminal(rs)
    /\ rs.build[1] = Terminal(rs)
    /\ rs.build[2] \in rs.manifest[Terminal(rs)].platforms

\* C5 as stated: on every manifest whose chain from the requested version is
\* acyclic and present, resolve returns the terminal version with its artifact.
C5_ChainResolvesToTerminal == ResolvedOnChain => ReturnsTerminal

\* C5 (amended): on a manifest whose chain from the requested version is acyclic
\* and present, resolve returns the terminal version with an artifact of the terminal
\* entry provided that entry is not flagged insecure and has at least one platform;
\* it fails with the insecure error when the terminal entry is insecure, and with
\* the platform error when the entry is not insecure and has no platform.
C5_SecureChainResolvesToTerminal ==
    ResolvedOnChain =>
        LET t == rs.manifest[Terminal(rs)] IN
          IF t.insecure THEN rs.res = "insecure"
          ELSE IF t.platforms = {} THEN rs.res = "no_platform"
          ELSE ReturnsTerminal

\* A resolve that followed at least one redirect and returned a build.
C5_Witness ==
    /\ ResolvedOnChain /\ rs.res = "ok"
    /\ rs.requested # Terminal(rs)
    /\ rs.resolved_version = Terminal(rs)

\* The platform key is a candidate RID of the running (OS, architecture) pair.
ForHost(host, rid) ==
    CASE host = <<"linux", "x86_64">>   -> rid \in {"linux-x64", "Linux-X64"}
      [] host = <<"windows", "x86_64">> -> rid \in {"win-x64", "win-x86"}
      [] OTHER                          -> FALSE

\* C22: resolve returns only an artifact whose platform key matches a candidate RID
\* of the running host, and fails with the platform error when the resolved entry,
\* not flagged insecure, has no such key.
C22_NoBuildForOtherPlatform ==
    /\ (rs.pc = "returned" /\ rs.res = "ok") => ForHost(rs.host, rs.build[2])
    /\ (/\ ResolvedOnChain /\ rs.res \in {"ok", "no_platform"}
        /\ \A rid \in rs.manifest[Terminal(rs)].platforms : ~ForHost(rs.host, rid))
         => rs.res = "no_platform"

\* C23: when the requested version, or the target of a redirect followed from it, is
\* not a key of the manifest, resolve fails with the unknown-version error: no artifact
\* is returned, and neither the insecure flag nor the platforms are looked at.
C23_MissingVersionIsUnknown ==
    (rs.pc = "returned" /\ rs.res \notin ManifestErrs)
        => /\ ChainOf(rs)[1] = "missing"
                => /\ rs.res = IF rs.manifest[rs.requested].present
                               THEN "unknown_redirect" ELSE "unknown_version"
                   /\ rs.build = <<>> /\ rs.resolved_version = None /\ rs.host = <<>>
           /\ rs.res \in {"unknown_version", "unknown_redirect"}
                => ChainOf(rs)[1] = "missing"

\* A redirect from an insecure entry to a version the manifest lacks.
C23_Witness ==
    /\ rs.pc = "returned" /\ rs.res = "unknown_redirect"
    /\ rs.manifest[rs.requested].insecure
    /\ ChainOf(rs) = <<"missing", rs.manifest[rs.requested].redirect>>

(***************************************************************************)
(* Engine archive installer: ensure_client_installed.                      *)
(***************************************************************************)
MaxArchiveLen == 2
ArchiveBytes == {1, 2}
Archives == UNION {[1..n -> ArchiveBytes] : n \in 0..MaxArchiveLen}

\* hex::encode(Sha256::digest(content)): lower-case hex digits, injective in content.
Sha256Hex(c) == <<"0">> \o [i \in 1..Len(c) |-> IF c[i] = 1 THEN "a" ELSE "b"]

\* A faulty variant of eq_hex_case_insensitive: only the lengths are compared.
eq_hex_length(a, b) == Len(Trim(a)) = Len(Trim(b))

eq_hex_case_insensitive(a, b) == LowerStr(Trim(a)) = LowerStr(Trim(b))

\* build.sha256 as the manifest spells it.
ExpectedHexes ==
    { Sha256Hex(<<1, 2>>), <<"0", "A", "B">>, <<" ", "0", "A", "b", " ">>,
      Sha256Hex(<<2, 2>>) }

\* A faulty variant of MayRedownload: every mismatch is answered by another download.
MayRedownloadAlways(mismatches) == TRUE

\* The mismatch branch downloads again only after the first failed comparison.
MayRedownload(mismatches) == mismatches = 1

InstallReturn(e) == eng' = [eng EXCEPT !.pc = "returned", !.res = e]

\* resolve_engine_build(engine_version)?
InstallResolve ==
    /\ eng.pc = "resolve"
    /\ \/ eng' = [eng EXCEPT !.pc = "returned", !.res = "resolve", !.fetches = @ + 1]
       \/ eng' = [eng EXCEPT !.pc = "probe", !.fetches = @ + 1]
    /\ UNCHANGED <<dir, ino, run, wk, rs, ov>>

\* needs_download = !zip_path.exists(); cancel check before the first download.
InstallProbe ==
    /\ eng.pc = "probe"
    /\ IF ~needs_download(eng.file) THEN eng' = [eng EXCEPT !.pc = "hash"]
       ELSE IF eng.cancel THEN InstallReturn("cancelled")
       ELSE eng' = [eng EXCEPT !.pc = "download"]
    /\ UNCHANGED <<dir, ino, run, wk, rs, ov>>

\* download_to_file up to File::create.
InstallDownloadStart ==
    /\ eng.pc = "download"
    /\ \/ eng' = [eng EXCEPT !.pc = "returned", !.res = "http", !.downloads = @ + 1]
       \/ eng' = [eng EXCEPT !.pc = "stream", !.downloads = @ + 1,
                             !.file = [exists |-> TRUE, content |-> <<>>]]
    /\ UNCHANGED <<dir, ino, run, wk, rs, ov>>

\* download_to_file: one iteration of the read loop.
InstallDownloadChunk ==
    /\ eng.pc = "stream"
    /\ IF eng.cancel
       THEN eng' = [eng EXCEPT !.pc = "returned", !.res = "cancelled", !.file = NoFile]
       ELSE \/ InstallReturn("read")
            \/ eng' = [eng EXCEPT !.pc = "hash"]
            \/ /\ Len(eng.file.content) < MaxArchiveLen
               /\ \E b \in ArchiveBytes :
                    eng' = [eng EXCEPT !.file.content = Append(@, b)]
    /\ UNCHANGED <<dir, ino, run, wk, rs, ov>>

\* sha256_file_hex and the comparison; on mismatch remove the file, check the cancel
\* flag and download once more, or fail after the second comparison.
InstallVerify ==
    /\ eng.pc = "hash"
    /\ LET actual == Sha256Hex(eng.file.content)
           e == [eng EXCEPT !.actual = actual, !.hashedAt = eng.downloads]
       IN IF eq_hex_case_insensitive(actual, eng.expected)
          THEN eng' = [e EXCEPT !.pc = "returned", !.res = "ok"]
          ELSE LET f == [e EXCEPT !.mismatches = @ + 1] IN
               IF ~MayRedownload(f.mismatches)
               THEN eng' = [f EXCEPT !.pc = "returned", !.res = "hash_mismatch"]
               ELSE IF f.cancel
               THEN eng' = [f EXCEPT !.pc = "returned", !.res = "cancelled", !.file = NoFile]
               ELSE eng' = [f EXCEPT !.pc = "download", !.file = NoFile]
    /\ UNCHANGED <<dir, ino, run, wk, rs, ov>>

InstallCancel ==
    /\ eng.pc \notin {"idle", "returned"}
    /\ ~eng.cancel
    /\ eng' = [eng EXCEPT !.cancel = TRUE]
    /\ UNCHANGED <<dir, ino, run, wk, rs, ov>>

InitInstall ==
    /\ SyncIdle
    /\ rs = IdleResolve
    /\ \E f \in {NoFile} \cup {[exists |-> TRUE, content |-> c] : c \in Archives} :
         \E x \in ExpectedHexes :
           eng = [IdleEngine EXCEPT !.pc = "resolve", !.file = f, !.existed = f.exists,
                                    !.expected = x]
    /\ ov = IdleOverlay

NextInstall ==
    \/ InstallResolve
    \/ InstallProbe
    \/ InstallDownloadStart
    \/ InstallDownloadChunk
    \/ InstallVerify
    \/ InstallCancel

SpecInstall == InitInstall /\ [][NextInstall]_vars

\* Two hex strings denote the same digest: equal digit values position by position,
\* blanks around them aside.
HexDigit(ch) ==
    CASE ch \in {"a", "A"} -> 10 [] ch \in {"b", "B"} -> 11 [] ch = "0" -> 0 [] OTHER -> -1
NoBlanks(x) == SelectSeq(x, LAMBDA ch : ch # " ")
SameDigest(a, b) ==
    LET x == NoBlanks(a)
        y == NoBlanks(b)
    IN /\ Len(x) = Len(y)
       /\ \A i \in 1..Len(x) : HexDigit(x[i]) >= 0 /\ HexDigit(x[i]) = HexDigit(y[i])

InstallOk == eng.pc = "returned" /\ eng.res = "ok"

\* C6: ensure_client_installed returns Ok only if the SHA-256 of the archive file,
\* computed in the call after its last download, denotes the expected digest of the
\* resolved build (hex compared without regard to case).
C6_OkOnlyIfHashMatches ==
    InstallOk =>
        /\ eng.file.exists
        /\ eng.hashedAt = eng.downloads
        /\ eng.actual = Sha256Hex(eng.file.content)
        /\ SameDigest(eng.actual, eng.expected)

\* Ok after a re-download, with the expected hash spelled in upper case.
C6_Witness ==
    /\ InstallOk
    /\ eng.downloads = 2
    /\ eng.expected # eng.actual

\* C7: within one call the archive is downloaded at most twice: not at all when the
\* file exists and its hash matches, a first time only when the file is absent, once
\* more (the file removed before) when a hash check mismatches; a mismatch after the
\* re-download fails the call and no third download happens.
C7_AtMostTwoDownloads ==
    LET first == IF eng.existed THEN 0 ELSE 1
        again == IF eng.mismatches >= 1 THEN 1 ELSE 0
    IN /\ eng.downloads <= 2 /\ eng.mismatches <= 2
       /\ eng.downloads <= first + again
       /\ (eng.pc = "returned" /\ eng.res \in {"ok", "hash_mismatch"}) =>
              eng.downloads = first + again
       /\ (eng.pc = "download" /\ eng.mismatches >= 1) => ~eng.file.exists
       /\ (eng.mismatches = 2) <=> (eng.pc = "returned" /\ eng.res = "hash_mismatch")

\* The call failed on the second mismatch after two downloads.
C7_Witness ==
    /\ eng.pc = "returned" /\ eng.res = "hash_mismatch"
    /\ eng.downloads = 2 /\ eng.mismatches = 2

(***************************************************************************)
(* Content overlay coordinator: ensure_content_overlay_zip.                *)
(***************************************************************************)
\* Option<String> fields of ServerBuildInformation: <<>> is None or "".
BuildInfos ==
    [download_url : {<<" ">>, <<"p">>}, hash : {<<>>, <<" ">>, <<"0", "A", "B">>},
     manifest_hash : {<<>>, <<" ">>, <<"0", "b">>},
     version : {<<"v", "/", "1">>, <<"v", "_", "1">>, <<".", ".">>},
     manifest_url : {<<>>, <<" ">>, <<"m">>}, manifest_download_url : {<<" ">>, <<"d">>},
     fallback : {<<>>, <<"P">>, <<"f">>}]

\* s.trim() non-empty
NonBlank(x) == Trim(x) # <<>>

AlphaNumeric == {"0", "1", "a", "b", "A", "B", "v", "m", "d", "p", "f", "P"}
sanitize_dir_component(x) ==
    [i \in 1..Len(x) |-> IF x[i] \in AlphaNumeric \cup {".", "_", "-"} THEN x[i] ELSE "_"]

\* A faulty variant of CacheKey: the manifest hash is preferred to the content hash.
CacheKeyManifestFirst(d) ==
    IF NonBlank(d.manifest_hash) THEN Trim(d.manifest_hash)
    ELSE IF NonBlank(d.hash) THEN Trim(d.hash)
    ELSE d.version

CacheKey(d) ==
    IF NonBlank(d.hash) THEN Trim(d.hash)
    ELSE IF NonBlank(d.manifest_hash) THEN Trim(d.manifest_hash)
    ELSE d.version

ZipPath(d) == <<"content", sanitize_dir_component(CacheKey(d)), "client.zip">>
OverlayCacheZip(d) ==
    <<"content_overlay_cache", sanitize_dir_component(Trim(d.manifest_hash)), "client.zip">>

\* A faulty variant of OutIsOverlayCache: the sync output always goes to the key directory.
OutNeverOverlayCache(d) == FALSE

\* out_zip = overlay_cache_zip.as_deref().unwrap_or(&zip_path)
OutIsOverlayCache(d) == NonBlank(d.manifest_hash)

\* Text of a failed download, as a sequence of words.
StatusText(st) ==
    CASE st = 401 -> <<"status 401", "Unauthorized">>
      [] st = 403 -> <<"status 403", "Forbidden">>
      [] st = 404 -> <<"status 404", "Not Found">>
      [] OTHER    -> <<"status 500", "Internal Server Error">>
Contains(e, w) == \E i \in 1..Len(e) : e[i] = w

should_try_fallback(e) ==
    \E w \in {"status 401", "status 403", "status 404", "Unauthorized", "Forbidden",
              "Not Found"} : Contains(e, w)
looks_like_auth(e) ==
    \E w \in {"status 401", "status 403", "Unauthorized", "Forbidden"} : Contains(e, w)
can_try_manifest(d) == NonBlank(d.manifest_url) /\ NonBlank(d.manifest_download_url)

\* A faulty variant of hex_eq_ignore_ascii_case: every digest is accepted.
hex_eq_any(a, b) == TRUE

\* actual.eq_ignore_ascii_case(expected)
hex_eq_ignore_ascii_case(a, b) == LowerStr(a) = LowerStr(b)

HashOk(o) == hex_eq_ignore_ascii_case(Sha256Hex(o.zip.content), Trim(o.d.hash))

OverlayOk(o, path) == [o EXCEPT !.call.pc = "returned", !.call.res = <<"ok">>,
                           !.call.ret = path]
OverlayErr(o, e) == [o EXCEPT !.call.pc = "returned", !.call.res = e]

\* A faulty variant of OverlayCacheHit: the overlay cache is never taken.
OverlayCacheHitNever(o) == FALSE

\* overlay_cache_zip is Some, overlay_zip.exists() && marker.exists()
OverlayCacheHit(o) == NonBlank(o.d.manifest_hash) /\ o.ozip.exists /\ o.omarker

\* Entry of ensure_content_overlay_zip up to the first download.
OverlayStart ==
    /\ ov.call.pc = "start"
    /\ LET d == ov.d
           \* a marker without its archive is removed
           o1 == IF needs_download(ov.zip) THEN [ov EXCEPT !.marker = FALSE] ELSE ov
           stale == ov.zip.exists /\ NonBlank(d.hash) /\ ~HashOk(ov)
           o2 == IF stale THEN [o1 EXCEPT !.zip = NoFile, !.torn = FALSE] ELSE o1
       IN ov' =
            IF ~NonBlank(d.download_url) THEN OverlayErr(ov, <<"no download_url">>)
            ELSE IF OverlayCacheHit(ov)
            THEN OverlayOk(ov, OverlayCacheZip(d))
            ELSE IF ~needs_download(ov.zip) /\ ov.marker THEN OverlayOk(ov, ZipPath(d))
            ELSE IF ~needs_download(o2.zip) THEN OverlayOk(o2, ZipPath(d))
            ELSE IF ov.call.cancel THEN OverlayErr(o2, <<"cancelled">>)
            ELSE [o2 EXCEPT !.call.pc = "primary"]
    /\ UNCHANGED <<dir, ino, run, wk, rs, eng>>

\* download_to_file_with_fallback and the caller's match on a failed download.
DownloadFailed(o, e) ==
    IF o.call.pc \in {"primary", "stream_primary"}
    THEN IF /\ NonBlank(o.d.fallback)
            /\ ~hex_eq_ignore_ascii_case(Trim(o.d.fallback), Trim(o.d.download_url))
            /\ should_try_fallback(e)
         THEN [o EXCEPT !.call.pc = "fallback", !.call.perr = e, !.zip = NoFile, !.torn = FALSE]
         ELSE [o EXCEPT !.call.pc = "monoerr", !.call.err = e]
    ELSE [o EXCEPT !.call.pc = "monoerr", !.call.err = o.call.perr \o e]

\* download_to_file up to File::create, for the primary or the fallback URL.  A
\* rejected request yields the status text followed by the WWW-Authenticate and
\* Server headers and a body snippet (x).
OverlayRequest ==
    /\ ov.call.pc \in {"primary", "fallback"}
    /\ LET o == [ov EXCEPT !.call.requests = @ + 1] IN
       \/ ov' = DownloadFailed(o, <<"request error">>)
       \/ \E st \in {401, 403, 404, 500} : \E x \in {<<>>, <<"Forbidden">>} :
            ov' = DownloadFailed([o EXCEPT !.call.statuses = @ \cup {st}],
                                 StatusText(st) \o x)
       \/ ov' = [o EXCEPT !.call.pc = IF @ = "primary" THEN "stream_primary"
                                      ELSE "stream_fallback",
                          !.zip = [exists |-> TRUE, content |-> <<>>], !.torn = TRUE]
    /\ UNCHANGED <<dir, ino, run, wk, rs, eng>>

\* download_to_file: one iteration of the read loop.
OverlayStream ==
    /\ ov.call.pc \in {"stream_primary", "stream_fallback"}
    /\ IF ov.call.cancel
       THEN ov' = DownloadFailed([ov EXCEPT !.zip = NoFile, !.torn = FALSE], <<"cancelled">>)
       ELSE \/ ov' = DownloadFailed(ov, <<"read error">>)
            \/ ov' = [ov EXCEPT !.call.pc = "verify", !.call.fresh = TRUE, !.torn = FALSE]
            \/ /\ Len(ov.zip.content) < MaxArchiveLen
               /\ \E b \in ArchiveBytes : ov' = [ov EXCEPT !.zip.content = Append(@, b)]
    /\ UNCHANGED <<dir, ino, run, wk, rs, eng>>

\* The hash check of a downloaded archive.
OverlayVerify ==
    /\ ov.call.pc = "verify"
    /\ ov' = IF NonBlank(ov.d.hash) /\ ~HashOk(ov)
             THEN OverlayErr([ov EXCEPT !.zip = NoFile, !.torn = FALSE], <<"hash mismatch">>)
             ELSE OverlayOk(ov, ZipPath(ov.d))
    /\ UNCHANGED <<dir, ino, run, wk, rs, eng>>

\* Err(zip_err): fall back to the manifest pipeline or return the error.
OverlayMonoErr ==
    /\ ov.call.pc = "monoerr"
    /\ ov' = IF can_try_manifest(ov.d) /\ looks_like_auth(ov.call.err)
             THEN IF ov.call.cancel
                  THEN OverlayErr([ov EXCEPT !.zip = NoFile, !.torn = FALSE], <<"cancelled">>)
                  ELSE [ov EXCEPT !.zip = NoFile, !.torn = FALSE, !.call.pc = "sync"]
             ELSE OverlayErr(ov, ov.call.err)
    /\ UNCHANGED <<dir, ino, run, wk, rs, eng>>

\* build_overlay_zip_from_manifest(data_dir, build, out_zip, ..) as a whole, the
\* markers and the return.  A failed sync may leave a partial out_zip behind.  torn
\* records that the file at zip_path was created by a write that did not finish.
OverlaySync ==
    /\ ov.call.pc = "sync"
    /\ LET toCache == OutIsOverlayCache(ov.d)
           c == [ov EXCEPT !.call.syncCalls = @ + 1, !.call.requests = @ + 1]
           Out(o, f) == IF toCache THEN [o EXCEPT !.ozip = f]
                        ELSE [o EXCEPT !.zip = f, !.torn = f.content = <<>>]
       IN \/ /\ ov.call.cancel
             /\ ov' = OverlayErr(c, ov.call.err \o <<"cancelled">>)
          \/ /\ ~ov.call.cancel
             /\ \E f \in {NoFile, [exists |-> TRUE, content |-> <<>>]} :
                  ov' = OverlayErr(IF f.exists THEN Out(c, f) ELSE c,
                                   ov.call.err \o <<"sync error">>)
          \/ /\ ~ov.call.cancel
             /\ LET o1 == Out([c EXCEPT !.call.syncOk = TRUE],
                              [exists |-> TRUE, content |-> <<2, 1>>])
                    o2 == IF ~toCache THEN [o1 EXCEPT !.marker = TRUE] ELSE o1
                    o3 == IF NonBlank(ov.d.manifest_hash)
                          THEN [o2 EXCEPT !.omarker = TRUE] ELSE o2
                IN ov' = IF NonBlank(ov.d.manifest_hash) /\ o3.ozip.exists
                         THEN OverlayOk(o3, OverlayCacheZip(ov.d))
                         ELSE OverlayOk(o3, ZipPath(ov.d))
    /\ UNCHANGED <<dir, ino, run, wk, rs, eng>>

OverlayCancel ==
    /\ ov.call.pc \notin {"idle", "returned"}
    /\ ~ov.call.cancel
    /\ ov' = [ov EXCEPT !.call.cancel = TRUE]
    /\ UNCHANGED <<dir, ino, run, wk, rs, eng>>

\* The next launch calls ensure_content_overlay_zip again on the same data directory.
OverlayRelaunch ==
    /\ ov.call.pc = "returned"
    /\ ov' = [ov EXCEPT !.call = [IdleCall EXCEPT !.pc = "start"]]
    /\ UNCHANGED <<dir, ino, run, wk, rs, eng>>

InitOverlay ==
    /\ SyncIdle
    /\ rs = IdleResolve
    /\ eng = IdleEngine
    /\ \E d \in BuildInfos : \E z \in {NoFile, [exists |-> TRUE, content |-> <<1>>]} :
         \E mk \in BOOLEAN : \E oc \in BOOLEAN :
           /\ mk => ~z.exists
           /\ oc => NonBlank(d.manifest_hash)
           /\ ov = [IdleOverlay EXCEPT !.d = d, !.zip = z, !.marker = mk,
                                       !.ozip = IF oc THEN [exists |-> TRUE, content |-> <<2, 1>>]
                                                ELSE NoFile,
                                       !.omarker = oc,
                                       !.call.pc = "start"]

NextOverlay ==
    \/ OverlayStart
    \/ OverlayRequest
    \/ OverlayStream
    \/ OverlayVerify
    \/ OverlayMonoErr
    \/ OverlaySync
    \/ OverlayCancel
    \/ OverlayRelaunch

SpecOverlay == InitOverlay /\ [][NextOverlay]_vars

OverlayReturned == ov.call.pc = "returned"
OverlayReturnedOk == OverlayReturned /\ ov.call.res = <<"ok">>

\* C8: ensure_content_overlay_zip never returns Ok with an archive at the key path
\* that carries no sync marker and whose SHA-256 differs from the expected content
\* hash when the descriptor provides one; a freshly downloaded archive that
\* mismatches makes the call fail, and the file is removed.
C8_MonolithicHashEnforced ==
    /\ (/\ OverlayReturnedOk
        /\ ov.call.ret = <<"content", NoBlanks(ov.d.hash), "client.zip">>
        /\ ~ov.marker
        /\ NonBlank(ov.d.hash))
         => (ov.zip.exists /\ SameDigest(Sha256Hex(ov.zip.content), ov.d.hash))
    /\ (OverlayReturned /\ ov.call.fresh /\ NonBlank(ov.d.hash))
         => IF SameDigest(Sha256Hex(ov.zip.content), ov.d.hash)
            THEN ov.call.res = <<"ok">> /\ ov.zip.exists
            ELSE ov.call.res = <<"hash mismatch">> /\ ~ov.zip.exists

\* A call that downloaded an archive, found its hash wrong, failed and removed it.
C8_Witness ==
    /\ OverlayReturned /\ ov.call.fresh /\ NonBlank(ov.d.hash)
    /\ ov.call.res = <<"hash mismatch">> /\ ~ov.zip.exists

AuthStatus == ov.call.statuses \cap {401, 403} # {}
BothManifestUrls == NoBlanks(ov.d.manifest_url) # <<>> /\ NoBlanks(ov.d.manifest_download_url) # <<>>

\* C9: the manifest sync is invoked only if the monolithic download failed with
\* status 401 or 403 and the descriptor has both manifest URLs non-blank; otherwise
\* the monolithic error is returned and the sync is not invoked.
C9_SyncOnlyAfterAuthStatus ==
    /\ (ov.call.pc = "sync" \/ ov.call.syncCalls > 0) => (AuthStatus /\ BothManifestUrls)
    /\ (OverlayReturned /\ ov.call.err # <<>> /\ ~(AuthStatus /\ BothManifestUrls))
         => (ov.call.syncCalls = 0 /\ ov.call.res = ov.call.err)

\* C10: when the monolithic download was rejected with 403, the descriptor has both
\* manifest URLs and a manifest hash, and the sync succeeded, the call returns
\* content_overlay_cache/<manifest hash>/client.zip, and that archive and the marker
\* next to it exist when the call returns.
C10_SyncResultIsOverlayCache ==
    (/\ OverlayReturned
     /\ 403 \in ov.call.statuses /\ BothManifestUrls /\ NoBlanks(ov.d.manifest_hash) # <<>>
     /\ ov.call.syncOk)
      => /\ ov.call.res = <<"ok">>
         /\ ov.call.ret = <<"content_overlay_cache", NoBlanks(ov.d.manifest_hash), "client.zip">>
         /\ ov.ozip.exists /\ ov.omarker

\* A 403 on the archive followed by a successful sync into the overlay cache.
C10_Witness ==
    /\ OverlayReturnedOk /\ ov.call.syncOk /\ 403 \in ov.call.statuses
    /\ NoBlanks(ov.d.manifest_hash) # <<>>
    /\ ov.call.ret = OverlayCacheZip(ov.d)

\* C16: a call of ensure_content_overlay_zip that stops because the cancel flag
\* was observed returns the cancelled error alone, never a text that wraps it.
C16_CancelErrorIsUniform ==
    (OverlayReturned /\ Contains(ov.call.res, "cancelled")) => ov.call.res = <<"cancelled">>

\* A call enters with the overlay archive of its manifest hash and the marker present.
EntersWithOverlayCache ==
    /\ ov.call.pc = "start" /\ ov'.call.pc # "start"
    /\ NoBlanks(ov.d.manifest_hash) # <<>> /\ ov.ozip.exists /\ ov.omarker

\* The call returns the overlay cache path at once: no request, no sync, and the
\* archive at the key path neither hashed nor removed.
ReturnsOverlayCache ==
    /\ ov'.call.pc = "returned" /\ ov'.call.res = <<"ok">>
    /\ ov'.call.ret = <<"content_overlay_cache", NoBlanks(ov.d.manifest_hash), "client.zip">>
    /\ ov'.call.requests = 0 /\ ov'.call.syncCalls = 0
    /\ ov'.zip = ov.zip /\ ov'.marker = ov.marker /\ ov'.ozip = ov.ozip

EntersWithoutOverlayCache ==
    /\ ov.call.pc = "start" /\ ov'.call.pc # "start"
    /\ NoBlanks(ov.d.download_url) # <<>>
    /\ ~(NoBlanks(ov.d.manifest_hash) # <<>> /\ ov.ozip.exists /\ ov.omarker)

\* C20: without an overlay cache hit, an archive at the key path that carries the
\* sync marker is returned as it is, with no hash check and no request, even when the
\* descriptor has an expected hash; a marker without its archive is removed before
\* any download request.
C20_MarkedArchiveReturnedUnverified ==
    [][EntersWithoutOverlayCache =>
         /\ (ov.zip.exists /\ ov.marker)
              => /\ ov'.call.pc = "returned" /\ ov'.call.res = <<"ok">>
                 /\ ov'.call.ret = ZipPath(ov.d)
                 /\ ov'.call.requests = 0 /\ ov'.call.syncCalls = 0
                 /\ ov'.zip = ov.zip /\ ov'.marker
         /\ (~ov.zip.exists /\ ov.marker)
              => (~ov'.marker /\ ov'.call.requests = 0 /\ ov'.call.syncCalls = 0)]_vars

\* A marked archive whose hash differs from the descriptor's was returned untouched.
C20_Witness ==
    /\ OverlayReturnedOk /\ ov.call.ret = ZipPath(ov.d)
    /\ ov.call.requests = 0 /\ ov.call.syncCalls = 0
    /\ ov.zip.exists /\ ov.marker
    /\ NonBlank(ov.d.hash) /\ ~SameDigest(Sha256Hex(ov.zip.content), ov.d.hash)

\* C21: the fallback URL is requested only after the primary download was answered
\* with status 401, 403 or 404 and when the fallback differs from the primary URL; after
\* any other primary failure the primary error is what the download reports.
C21_FallbackOnlyAfterRejection ==
    /\ ov.call.pc = "fallback"
         => /\ ov.call.statuses \cap {401, 403, 404} # {}
            /\ NoBlanks(ov.d.fallback) # <<>>
            /\ LowerStr(NoBlanks(ov.d.fallback)) # LowerStr(NoBlanks(ov.d.download_url))
    /\ (ov.call.pc = "monoerr" /\ ov.call.statuses \cap {401, 403, 404} = {})
         => ov.call.perr = <<>>

\* C27: over any sequence of calls, failed and cancelled ones included, a call
\* returns Ok(path) only for a file that a download or an assembly wrote to its
\* end; a file left by a write that did not finish is not returned, also when the
\* descriptor carries no hash.
C27_OnlyCompleteArchiveReturned ==
    (ov.call.pc = "returned" /\ ov.call.res = <<"ok">>)
        => IF ov.call.ret = ZipPath(ov.d)
           THEN ov.zip.exists /\ ~ov.torn
           ELSE /\ ov.call.ret = OverlayCacheZip(ov.d)
                /\ ov.ozip = [exists |-> TRUE, content |-> <<2, 1>>]

\* C39: the directory component made from an identity key or version names a direct
\* child of its cache root: it is not empty, "." or "..", holds no path separator,
\* and differs from the component of every other key.
C39_KeyDirectoryInsideRoot ==
    (ov.call.pc = "returned" /\ ov.call.res = <<"ok">>)
        => LET c == ov.call.ret[2]
           IN /\ c \notin {<<>>, <<".">>, <<".", ".">>}
              /\ \A i \in 1..Len(c) : c[i] \notin {"/", "\\"}
              /\ \A d \in BuildInfos :
                   CacheKey(d) # CacheKey(ov.d)
                     => sanitize_dir_component(CacheKey(d))
                          # sanitize_dir_component(CacheKey(ov.d))

\* C40: the cache key is the content hash when present and not blank, else the
\* manifest hash when present and not blank, else the version; a call returns the
\* archive at content/<key>/client.zip, or, for the overlay of a manifest sync with
\* a manifest hash present, at content_overlay_cache/<manifest hash>/client.zip
\* (the key and the hash as directory names, a path separator written as '_').
C40_CacheKeyPreference ==
    (ov.call.pc = "returned" /\ ov.call.res = <<"ok">>)
        => LET present(x) == \E i \in 1..Len(x) : x[i] # " "
               key == IF present(ov.d.hash) THEN NoBlanks(ov.d.hash)
                      ELSE IF present(ov.d.manifest_hash) THEN NoBlanks(ov.d.manifest_hash)
                      ELSE ov.d.version
               dirname(k) == [i \in 1..Len(k) |-> IF k[i] = "/" THEN "_" ELSE k[i]]
           IN IF ov.call.syncOk /\ present(ov.d.manifest_hash)
              THEN /\ ov.call.ret = <<"content_overlay_cache",
                                       dirname(NoBlanks(ov.d.manifest_hash)), "client.zip">>
                   /\ ov.ozip.exists
              ELSE \/ /\ ov.call.ret = <<"content", dirname(key), "client.zip">>
                      /\ ov.zip.exists
                   \/ /\ present(ov.d.manifest_hash) /\ ov.ozip.exists /\ ov.omarker
                      /\ ov.call.ret = <<"content_overlay_cache",
                                          dirname(NoBlanks(ov.d.manifest_hash)), "client.zip">>
C40_Witness ==
    /\ ov.call.pc = "returned" /\ ov.call.res = <<"ok">> /\ ov.call.fresh
    /\ ov.d.hash = <<" ">> /\ ov.d.manifest_hash = <<"0", "b">>
    /\ ov.call.ret = <<"content", <<"0", "b">>, "client.zip">>

(***************************************************************************)
(* The acquisition pipeline of connect: ensure_content_overlay_zip, then   *)
(* ensure_client_installed; a second connect runs both again on the same   *)
(* data directory against the same server data.                            *)
(***************************************************************************)
InitPipeline ==
    /\ SyncIdle
    /\ rs = IdleResolve
    /\ \E x \in ExpectedHexes :
         eng = [IdleEngine EXCEPT !.pc = "resolve", !.expected = x]
    /\ \E d \in {b \in BuildInfos : /\ b.download_url = <<"p">> /\ b.fallback = <<>>
                                   /\ b.manifest_url = <<"m">>
                                   /\ b.manifest_download_url = <<"d">>} :
         ov = [IdleOverlay EXCEPT !.d = d, !.call.pc = "start"]

\* The second connect, after the first one obtained both archives.
PipelineAgain ==
    /\ eng.round = 1
    /\ ov.call.pc = "returned" /\ ov.call.res = <<"ok">>
    /\ eng.pc = "returned" /\ eng.res = "ok"
    /\ ov' = [ov EXCEPT !.prev = ov.call.ret, !.call = [IdleCall EXCEPT !.pc = "start"]]
    /\ eng' = [IdleEngine EXCEPT !.pc = "resolve", !.expected = eng.expected,
                                 !.file = eng.file, !.existed = eng.file.exists,
                                 !.round = 2]
    /\ UNCHANGED <<dir, ino, run, wk, rs>>

NextPipeline ==
    \/ /\ eng.pc = "resolve" /\ eng.fetches = 0
       /\ \/ OverlayStart
          \/ OverlayRequest
          \/ OverlayStream
          \/ OverlayVerify
          \/ OverlayMonoErr
          \/ OverlaySync
          \/ OverlayCancel
    \/ /\ ov.call.pc = "returned" /\ ov.call.res = <<"ok">>
       /\ \/ InstallResolve
          \/ InstallProbe
          \/ InstallDownloadStart
          \/ InstallDownloadChunk
          \/ InstallVerify
          \/ InstallCancel
    \/ PipelineAgain

SpecPipeline == InitPipeline /\ [][NextPipeline]_vars

SecondRunDone == eng.round = 2 /\ eng.pc = "returned"

\* C11 as stated: after a successful run of the pipeline, a second run performs no
\* network request and returns the same paths.
C11_SecondRunNoNetwork ==
    SecondRunDone =>
        /\ ov.call.requests = 0 /\ eng.downloads = 0 /\ eng.fetches = 0
        /\ ov.call.ret = ov.prev /\ eng.res = "ok"

\* C11 (amended): after a successful run of the pipeline, a second run sends no
\* request other than those of the engine manifest fetch: no archive, content
\* manifest or blob is requested, the overlay call returns the path it returned
\* before, and the engine call returns Ok unless the manifest fetch failed.
C11_SecondRunOnlyFetchesEngineManifest ==
    /\ eng.round = 2 =>
         /\ ov.call.requests = 0 /\ eng.downloads = 0
         /\ ov.call.pc = "returned" => (ov.call.res = <<"ok">> /\ ov.call.ret = ov.prev)
    /\ SecondRunDone =>
         /\ eng.fetches = 1
         /\ eng.res \in {"ok", "resolve"}

\* A second run that returned both archives again.
C11_Witness ==
    /\ SecondRunDone /\ eng.res = "ok"
    /\ ov.call.pc = "returned" /\ ov.call.ret = ov.prev /\ ov.prev # <<>>

(***************************************************************************)
(* launch_client: the engine signature check before the game client is     *)
(* started.                                                                *)
(***************************************************************************)
\* The signature of an archive under the launcher's key, as hex::encode spells it:
\* a fixed length, injective in the content.
Ed25519Hex(c) ==
    [i \in 1..MaxArchiveLen |-> IF i > Len(c) THEN "0" ELSE IF c[i] = 1 THEN "a" ELSE "b"]

\* hex::decode, Signature::try_from, the key file, the archive, verify_strict.
verify_engine_signature(engine_zip, signature_hex, key) ==
    LET h == Trim(signature_hex)
    IN IF \E i \in 1..Len(h) : HexDigit(h[i]) < 0 THEN "signature hex"
       ELSE IF Len(h) # MaxArchiveLen THEN "signature length"
       ELSE IF ~key THEN "public key"
       ELSE IF ~engine_zip.exists THEN "engine zip"
       ELSE IF LowerStr(h) # Ed25519Hex(engine_zip.content) THEN "signature"
       ELSE "ok"

\* A faulty variant of should_allow_disable_signing_on_debug: the build kind is ignored.
should_allow_disable_signing_any_build(debug_assertions, v) ==
    /\ v # None
    /\ Trim(v) # <<>> /\ (v = <<"1">> \/ LowerStr(v) = <<"t", "r", "u", "e">>)

\* cfg!(debug_assertions) && env SS14_DISABLE_SIGNING is "1" or "true" in any case.
should_allow_disable_signing_on_debug(debug_assertions, v) ==
    /\ debug_assertions
    /\ v # None
    /\ Trim(v) # <<>> /\ (v = <<"1">> \/ LowerStr(v) = <<"t", "r", "u", "e">>)

\* data_dir, ensure_loader_installed, then the match on verify_engine_signature.
LaunchVerify ==
    /\ eng.launch.pc = "verify"
    /\ \/ eng' = [eng EXCEPT !.launch.pc = "aborted", !.launch.res = "loader"]
       \/ LET l == eng.launch
              v == verify_engine_signature(eng.file, l.signature_hex, l.key)
          IN eng' = IF v = "ok" \/ should_allow_disable_signing_on_debug(l.debug_assertions,
                                                                         l.env)
                    THEN [eng EXCEPT !.launch.pc = "spawn", !.launch.verified = v]
                    ELSE [eng EXCEPT !.launch.pc = "aborted", !.launch.verified = v,
                                     !.launch.res = v]
    /\ UNCHANGED <<dir, ino, run, wk, rs, ov>>

\* The rest of launch_client: pipes, arguments, and the start of the process.
LaunchSpawn ==
    /\ eng.launch.pc = "spawn"
    /\ \/ eng' = [eng EXCEPT !.launch.pc = "launched", !.launch.res = "ok"]
       \/ eng' = [eng EXCEPT !.launch.pc = "aborted", !.launch.res = "spawn"]
    /\ UNCHANGED <<dir, ino, run, wk, rs, ov>>

InitLaunch ==
    /\ SyncIdle
    /\ rs = IdleResolve
    /\ ov = IdleOverlay
    /\ \E f \in {NoFile} \cup {[exists |-> TRUE, content |-> c] : c \in Archives} :
       \E dbg, key \in BOOLEAN :
       \E v \in {None, <<>>, <<" ">>, <<"1">>, <<" ", "1">>, <<"0">>, <<"t", "r", "u", "e">>,
                 <<"T", "R", "U", "E">>, <<"T", "r", "u", "e">>, <<"y", "e", "s">>} :
       \E sg \in LET g == Ed25519Hex(<<1, 2>>)
                 IN {g, [i \in DOMAIN g |-> IF g[i] = "a" THEN "A" ELSE g[i]],
                     <<" ">> \o g \o <<" ">>, Ed25519Hex(<<2, 1>>), <<"z">> \o Tail(g),
                     Tail(g), <<>>} :
         eng = [IdleEngine EXCEPT !.pc = "returned", !.res = "ok", !.file = f,
                                  !.launch = [pc |-> "verify", debug_assertions |-> dbg,
                                              env |-> v, signature_hex |-> sg, key |-> key,
                                              verified |-> None, res |-> None]]

NextLaunch ==
    \/ LaunchVerify
    \/ LaunchSpawn

SpecLaunch == InitLaunch /\ [][NextLaunch]_vars

\* The explicit opt-in: SS14_DISABLE_SIGNING is 1, or true in any letter case.
OptIn ==
    eng.launch.env \in {<<"1">>} \cup {<<t, r, u, e>> : t \in {"t", "T"}, r \in {"r", "R"},
                                                      u \in {"u", "U"}, e \in {"e", "E"}}

\* C17: the game client is started only if the engine signature was verified, or
\* the verification failed in a debug build with the environment opt-in set; in a
\* release build a failed verification aborts the launch with the verification error.
C17_LaunchOnlyIfVerifiedOrDebugOptIn ==
    LET l == eng.launch
    IN /\ l.pc \in {"spawn", "launched"}
            => (l.verified = "ok" \/ (l.debug_assertions /\ OptIn))
       /\ (~l.debug_assertions /\ l.verified \notin {None, "ok"})
            => (l.pc = "aborted" /\ l.res = l.verified)
       /\ l.verified = "ok"
            => /\ eng.file.exists /\ l.key
               /\ LowerStr(NoBlanks(l.signature_hex)) = Ed25519Hex(eng.file.content)

\* A debug build with the opt-in set starts the client although the signature is wrong.
C17_Witness ==
    /\ eng.launch.pc = "launched"
    /\ eng.launch.verified = "signature"
    /\ eng.launch.debug_assertions /\ OptIn

====
